---- MODULE Spec2Model ----
(***************************************************************************)
(* DocuSign template -> fillable PDF converter.                            *)
(*                                                                         *)
(* Three components of the repository are modelled:                       *)
(*   - the coordinate conversions (getTabRectangle of js/converter.js,     *)
(*     convertDocuSignCoordinates and the conversion built into            *)
(*     translateField of js/field-translators.js, and the earlier          *)
(*     convertDocuSignCoordinates kept in unnamed/part_000): SpecRect;     *)
(*   - the tab loop of convertDocuSignToPDF (js/converter.js):             *)
(*     SpecConvert;                                                        *)
(*   - the translator registry and the translateField dispatcher           *)
(*     (js/field-translators.js, and the earlier one of unnamed/part_000): *)
(*     Spec.                                                               *)
(*                                                                         *)
(* JavaScript values are records [t, n, s]: t is the type tag, n the value *)
(* of a number, s the characters of a string (a sequence of one-character  *)
(* strings, so that parsing, searching and matching are computed).         *)
(***************************************************************************)
EXTENDS Integers, Sequences, FiniteSets

VARIABLES
    rectIn,             \* SpecRect: the arguments of the coordinate conversion under test
    rectOut,            \* SpecRect: which conversion ran and what it returned
    conv,               \* SpecConvert: the running convertDocuSignToPDF call
    FIELD_TRANSLATORS,  \* Spec: the registry's enabled flag of every registered kind
    requested,          \* Spec: per kind, the value last asked of the registry since the last reset
    request,            \* Spec: the arguments and the environment of the translateField call under test
    call,               \* Spec: the last call made to the registry or the dispatcher
    nameIn,             \* SpecName: the tabs generateFieldName is called on, and what the clock and Math.random give each call
    nameOut             \* SpecName: the names generated so far, in call order

vars == <<rectIn, rectOut, conv, FIELD_TRANSLATORS, requested, request, call,
          nameIn, nameOut>>

-----------------------------------------------------------------------------
(* JavaScript values *)

Undefined == [t |-> "undefined", n |-> 0, s |-> <<>>]
Null      == [t |-> "null", n |-> 0, s |-> <<>>]
NaN       == [t |-> "NaN", n |-> 0, s |-> <<>>]
NumV(n)   == [t |-> "number", n |-> n, s |-> <<>>]
StrV(s)   == [t |-> "string", n |-> 0, s |-> s]
BoolV(b)  == [t |-> "boolean", n |-> IF b THEN 1 ELSE 0, s |-> <<>>]

\* ToBoolean: what `!v`, `v || w` and `if (v)` test.
Truthy(v) ==
    CASE v.t = "number"  -> v.n # 0
      [] v.t = "string"  -> Len(v.s) > 0
      [] v.t = "boolean" -> v.n = 1
      [] v.t = "array"   -> TRUE
      [] OTHER           -> FALSE

\* a || b
Or(a, b) == IF Truthy(a) THEN a ELSE b

IsNumber(v) == v.t = "number"

\* a + b, a - b and Math.max(a, b) on numbers; NaN is contagious.
Add(a, b) == IF IsNumber(a) /\ IsNumber(b) THEN NumV(a.n + b.n) ELSE NaN
Sub(a, b) == IF IsNumber(a) /\ IsNumber(b) THEN NumV(a.n - b.n) ELSE NaN
MathMax(a, b) ==
    IF IsNumber(a) /\ IsNumber(b) THEN NumV(IF a.n >= b.n THEN a.n ELSE b.n) ELSE NaN

\* a <= b and a === b on the results of parseFloat: false when either is NaN.
Leq(a, b)      == IsNumber(a) /\ IsNumber(b) /\ a.n <= b.n
StrictEq(a, b) == IsNumber(a) /\ IsNumber(b) /\ a.n = b.n

DigitChars == <<"0", "1", "2", "3", "4", "5", "6", "7", "8", "9">>
IsDigit(c) == \E i \in 1..10 : DigitChars[i] = c
DigitVal(c) == (CHOOSE i \in 1..10 : DigitChars[i] = c) - 1

\* The number of decimal digits of s from position i on.
RECURSIVE DigitRun(_, _)
DigitRun(s, i) ==
    IF i <= Len(s) /\ IsDigit(s[i]) THEN 1 + DigitRun(s, i + 1) ELSE 0

\* The value of the k digits of s that start at position i.
RECURSIVE DigitsValue(_, _, _)
DigitsValue(s, i, k) ==
    IF k = 0 THEN 0
    ELSE 10 * DigitsValue(s, i, k - 1) + DigitVal(s[i + k - 1])

\* parseFloat of a string: an optional sign, then the longest run of digits;
\* what follows the digits is ignored, and no digit at all gives NaN.
\* (The inputs of the model hold no fraction and no exponent.)
ParseFloatStr(s) ==
    LET signed == Len(s) > 0 /\ s[1] \in {"-", "+"}
        start  == IF signed THEN 2 ELSE 1
        k      == DigitRun(s, start)
        mag    == DigitsValue(s, start, k)
    IN  IF k = 0 THEN NaN
        ELSE NumV(IF signed /\ s[1] = "-" THEN 0 - mag ELSE mag)

\* parseFloat(v): a number is returned as it is, a string is parsed,
\* undefined and null give NaN.
ParseFloat(v) ==
    CASE v.t = "number" -> v
      [] v.t = "string" -> ParseFloatStr(v.s)
      [] OTHER          -> NaN

\* String(n) of an integer.
RECURSIVE Decimal(_)
Decimal(n) ==
    IF n < 10 THEN <<DigitChars[n + 1]>>
    ELSE Decimal(n \div 10) \o <<DigitChars[(n % 10) + 1]>>

NumberToString(n) == IF n < 0 THEN <<"-">> \o Decimal(0 - n) ELSE Decimal(n)

\* s.includes(sub)
Includes(s, sub) ==
    \E i \in 0..(Len(s) - Len(sub)) :
        \A j \in 1..Len(sub) : s[i + j] = sub[j]

UpperChars ==
    <<"A", "B", "C", "D", "E", "F", "G", "H", "I", "J", "K", "L", "M">> \o
    <<"N", "O", "P", "Q", "R", "S", "T", "U", "V", "W", "X", "Y", "Z">>
LowerChars ==
    <<"a", "b", "c", "d", "e", "f", "g", "h", "i", "j", "k", "l", "m">> \o
    <<"n", "o", "p", "q", "r", "s", "t", "u", "v", "w", "x", "y", "z">>

\* c.toLowerCase() of an ASCII character.
LowerChar(c) ==
    IF \E i \in 1..Len(UpperChars) : UpperChars[i] = c
    THEN LowerChars[CHOOSE i \in 1..Len(UpperChars) : UpperChars[i] = c]
    ELSE c

\* s.toLowerCase()
ToLowerCase(s) == [i \in 1..Len(s) |-> LowerChar(s[i])]

\* /^\d+_\d+$/.test(s)
MatchesDigitsUnderscoreDigits(s) ==
    LET k == DigitRun(s, 1)
    IN  /\ k > 0
        /\ k + 1 <= Len(s)
        /\ s[k + 1] = "_"
        /\ DigitRun(s, k + 2) > 0
        /\ k + 1 + DigitRun(s, k + 2) = Len(s)

-----------------------------------------------------------------------------
(* Tabs, options, pages *)

\* A tab (or a radio of a radio group) with no property set.
EmptyTab ==
    [t |-> "object",
     tabType |-> Undefined, type |-> Undefined, stampType |-> Undefined,
     xPosition |-> Undefined, xPositionString |-> Undefined,
     yPosition |-> Undefined, yPositionString |-> Undefined,
     width |-> Undefined, widthString |-> Undefined,
     height |-> Undefined, heightString |-> Undefined,
     pageNumber |-> Undefined, page |-> Undefined, documentId |-> Undefined,
     tabLabel |-> Undefined, name |-> Undefined,
     value |-> Undefined, defaultValue |-> Undefined,
     text |-> Undefined, font |-> Undefined,
     groupName |-> Undefined, radios |-> Undefined,
     listItems |-> Undefined, selected |-> Undefined]

\* An array value.
ArrayV(items) == [t |-> "array", n |-> 0, s |-> <<>>, items |-> items]

\* The options object with no key set.
EmptyOptions ==
    [t |-> "object", fieldWidth |-> Undefined, fieldHeight |-> Undefined,
     includeSystemTabs |-> Undefined, includeSignatureFields |-> Undefined,
     signatureAsText |-> Undefined, showFieldNames |-> Undefined,
     maskHeaderHeight |-> Undefined, maskFooterHeight |-> Undefined,
     rect |-> Undefined, defaultValue |-> Undefined]

DEFAULT_TEXT_FIELD_WIDTH == 120
DEFAULT_TEXT_FIELD_HEIGHT == 20

Rect(llx, lly, urx, ury) ==
    [t |-> "object", llx |-> llx, lly |-> lly, urx |-> urx, ury |-> ury]

-----------------------------------------------------------------------------
(* Coordinate conversion *)

\* getTabRectangle with the right edge set to the width instead of x + width.
GetTabRectangleBadWidth(tab, pageSize, options) ==
    IF tab.t # "object" THEN Null
    ELSE
    LET x == ParseFloat(Or(Or(tab.xPosition, tab.xPositionString), NumV(0)))
        y == ParseFloat(Or(Or(tab.yPosition, tab.yPositionString), NumV(0)))
        width == ParseFloat(Or(Or(Or(tab.width, tab.widthString), options.fieldWidth),
                               NumV(DEFAULT_TEXT_FIELD_WIDTH)))
        height == ParseFloat(Or(Or(Or(tab.height, tab.heightString), options.fieldHeight),
                                NumV(DEFAULT_TEXT_FIELD_HEIGHT)))
    IN  Rect(x, Sub(pageSize.height, Add(y, height)), width, Sub(pageSize.height, y))

\* js/converter.js getTabRectangle.  parseFloat throws on no JSON value, so
\* the catch is taken only when reading a property of the tab throws, which
\* is when the tab is null (or undefined).
GetTabRectangle(tab, pageSize, options) ==
    IF tab.t # "object" THEN Null
    ELSE
    LET x == ParseFloat(Or(Or(tab.xPosition, tab.xPositionString), NumV(0)))
        y == ParseFloat(Or(Or(tab.yPosition, tab.yPositionString), NumV(0)))
        width == ParseFloat(Or(Or(Or(tab.width, tab.widthString), options.fieldWidth),
                               NumV(DEFAULT_TEXT_FIELD_WIDTH)))
        height == ParseFloat(Or(Or(Or(tab.height, tab.heightString), options.fieldHeight),
                                NumV(DEFAULT_TEXT_FIELD_HEIGHT)))
        llx == x
        lly == Sub(pageSize.height, Add(y, height))
        urx == Add(x, width)
        ury == Sub(pageSize.height, y)
    IN  Rect(llx, lly, urx, ury)

CheckboxDefaultSize == 12
SignatureDefaultWidth == 120
SignatureDefaultHeight == 20
TextDefaultWidth == 120
TextDefaultHeight == 20

\* The per-kind default size of js/field-translators.js (the same table
\* stands in translateField and in convertDocuSignCoordinates).
DefaultWidth(fieldType) ==
    IF fieldType = "checkboxTabs" THEN CheckboxDefaultSize
    ELSE IF fieldType \in {"signHereTabs", "initialHereTabs", "stampTabs"}
         THEN SignatureDefaultWidth
         ELSE TextDefaultWidth

DefaultHeight(fieldType) ==
    IF fieldType = "checkboxTabs" THEN CheckboxDefaultSize
    ELSE IF fieldType \in {"signHereTabs", "initialHereTabs", "stampTabs"}
         THEN SignatureDefaultHeight
         ELSE TextDefaultHeight

\* js/field-translators.js translateField, lines 146-181: the rectangle the
\* translator is given.  A pre-computed options.rect is used as it is.
TranslateFieldCoords(fieldType, fieldData, pageSize, options) ==
    IF options.rect.t = "object" /\ options.rect.llx.t # "undefined"
    THEN options.rect
    ELSE
    LET x == ParseFloat(Or(Or(fieldData.xPosition, fieldData.xPositionString), NumV(0)))
        y == ParseFloat(Or(Or(fieldData.yPosition, fieldData.yPositionString), NumV(0)))
        width == ParseFloat(Or(Or(fieldData.width, fieldData.widthString),
                               NumV(DefaultWidth(fieldType))))
        height == ParseFloat(Or(Or(fieldData.height, fieldData.heightString),
                                NumV(DefaultHeight(fieldType))))
    IN  Rect(x, Sub(pageSize.height, Add(y, height)), Add(x, width),
             Sub(pageSize.height, y))

\* js/field-translators.js convertDocuSignCoordinates.
ConvertDocuSignCoordinates(fieldData, pageSize, fieldType) ==
    LET x == ParseFloat(Or(Or(fieldData.xPosition, fieldData.xPositionString), NumV(0)))
        y == ParseFloat(Or(Or(fieldData.yPosition, fieldData.yPositionString), NumV(0)))
        width == ParseFloat(Or(Or(fieldData.width, fieldData.widthString),
                               NumV(DefaultWidth(fieldType))))
        height == ParseFloat(Or(Or(fieldData.height, fieldData.heightString),
                                NumV(DefaultHeight(fieldType))))
        pageHeight == pageSize.height
        pdfX == x
        pdfY == Sub(pageHeight, Add(y, height))
        pdfWidth == width
        pdfHeight == height
    IN  Rect(pdfX, pdfY, Add(pdfX, pdfWidth), Add(pdfY, pdfHeight))

S_text      == <<"t", "e", "x", "t">>
S_checkbox  == <<"c", "h", "e", "c", "k", "b", "o", "x">>
S_radio     == <<"r", "a", "d", "i", "o">>
S_signature == <<"s", "i", "g", "n", "a", "t", "u", "r", "e">>
S_initial   == <<"i", "n", "i", "t", "i", "a", "l">>
S_list      == <<"l", "i", "s", "t">>
S_dropdown  == <<"d", "r", "o", "p", "d", "o", "w", "n">>

LegacyMinWidthDefault == 50
LegacyMinHeightDefault == 15
LegacyMinSquare == 15
LegacyMinSignatureWidth == 100
LegacyMinSignatureHeight == 30
LegacyMinListWidth == 80
LegacyMinListHeight == 20

\* unnamed/part_000 convertDocuSignCoordinates: the earlier conversion, which
\* clamps to a minimum size chosen from the tab's own tabType.
LegacyConvertDocuSignCoordinates(fieldData, pageSize) ==
    LET x == ParseFloat(Or(fieldData.xPosition, NumV(0)))
        y == ParseFloat(Or(fieldData.yPosition, NumV(0)))
        width == ParseFloat(Or(fieldData.width, NumV(0)))
        height == ParseFloat(Or(fieldData.height, NumV(0)))
        pageHeight == pageSize.height
        fieldType == Or(fieldData.tabType, StrV(S_text)).s
        minWidth ==
            IF Includes(fieldType, S_checkbox) THEN LegacyMinSquare
            ELSE IF Includes(fieldType, S_radio) THEN LegacyMinSquare
            ELSE IF Includes(fieldType, S_signature) \/ Includes(fieldType, S_initial)
                 THEN LegacyMinSignatureWidth
            ELSE IF Includes(fieldType, S_list) \/ Includes(fieldType, S_dropdown)
                 THEN LegacyMinListWidth
            ELSE LegacyMinWidthDefault
        minHeight ==
            IF Includes(fieldType, S_checkbox) THEN LegacyMinSquare
            ELSE IF Includes(fieldType, S_radio) THEN LegacyMinSquare
            ELSE IF Includes(fieldType, S_signature) \/ Includes(fieldType, S_initial)
                 THEN LegacyMinSignatureHeight
            ELSE IF Includes(fieldType, S_list) \/ Includes(fieldType, S_dropdown)
                 THEN LegacyMinListHeight
            ELSE LegacyMinHeightDefault
        pdfX == x
        pdfY == Sub(pageHeight, Add(y, MathMax(height, NumV(minHeight))))
        pdfWidth == MathMax(width, NumV(minWidth))
        pdfHeight == MathMax(height, NumV(minHeight))
    IN  Rect(pdfX, pdfY, Add(pdfX, pdfWidth), Add(pdfY, pdfHeight))

-----------------------------------------------------------------------------
(* SpecRect: the coordinate conversions applied to bounded inputs *)

MaxSize == 2

XValues == {0, 10}
YValues == {0, 20}
SizeValues == ((0 - MaxSize)..MaxSize) \cup {15, 100}
PageHeights == {792}

S_abc  == <<"a", "b", "c">>
S_12px == <<"1", "2", "p", "x">>

PageSizeOf(h) == [width |-> NumV(612), height |-> NumV(h)]

\* The tabType a DocuSign export gives a tab of each kind.
TabTypeOf(fieldType) ==
    CASE fieldType = "checkboxTabs" -> StrV(S_checkbox)
      [] fieldType = "signHereTabs" -> StrV(S_signature)
      [] OTHER                      -> StrV(S_text)

\* How an export writes a number n: as a JSON number, as a decimal string, or
\* as a decimal string under the "...String" key only.
Encodings == {"number", "string", "stringKey"}

GeometryTab(x, y, w, h, enc, fieldType) ==
    LET base == [EmptyTab EXCEPT !.tabType = TabTypeOf(fieldType),
                                 !.pageNumber = NumV(1)]
    IN  CASE enc = "number" ->
              [base EXCEPT !.xPosition = NumV(x), !.yPosition = NumV(y),
                           !.width = NumV(w), !.height = NumV(h)]
          [] enc = "string" ->
              [base EXCEPT !.xPosition = StrV(NumberToString(x)),
                           !.yPosition = StrV(NumberToString(y)),
                           !.width = StrV(NumberToString(w)),
                           !.height = StrV(NumberToString(h))]
          [] OTHER ->
              [base EXCEPT !.xPositionString = StrV(NumberToString(x)),
                           !.yPositionString = StrV(NumberToString(y)),
                           !.widthString = StrV(NumberToString(w)),
                           !.heightString = StrV(NumberToString(h))]

RectFieldTypes == {"textTabs", "checkboxTabs", "signHereTabs"}

GeometryTabs(fieldType) ==
    {GeometryTab(x, y, w, h, enc, fieldType) :
        x \in XValues, y \in YValues, w \in SizeValues, h \in SizeValues,
        enc \in Encodings}

\* Tabs with a property that is absent or does not parse.
OddTabs(fieldType) ==
    LET good == GeometryTab(10, 20, 100, 15, "number", fieldType)
    IN  {[good EXCEPT !.width = Undefined, !.height = Undefined],
         [good EXCEPT !.width = Undefined],
         [good EXCEPT !.width = StrV(S_abc)],
         [good EXCEPT !.height = StrV(S_abc)],
         [good EXCEPT !.width = StrV(S_12px)],
         [good EXCEPT !.width = StrV(<<>>)],
         [good EXCEPT !.xPosition = StrV(S_abc)],
         [good EXCEPT !.yPosition = StrV(S_abc)],
         [good EXCEPT !.xPosition = Undefined, !.yPosition = Undefined]}

RectOptions ==
    {EmptyOptions,
     [EmptyOptions EXCEPT !.fieldWidth = NumV(80), !.fieldHeight = NumV(30)],
     [EmptyOptions EXCEPT !.rect = Rect(NumV(10), NumV(757), NumV(110), NumV(772))]}

RectInputs ==
    UNION {{[tab |-> tab, fieldType |-> ft, pageSize |-> PageSizeOf(ph), options |-> o] :
               tab \in GeometryTabs(ft) \cup OddTabs(ft),
               ph \in PageHeights, o \in RectOptions} : ft \in RectFieldTypes}
    \cup
    {[tab |-> Null, fieldType |-> "textTabs", pageSize |-> PageSizeOf(792),
      options |-> EmptyOptions]}

NoRectOut == [fn |-> "none", rect |-> Null]

\* No conversion is under test.
RectInputsIdle ==
    [tab |-> Null, fieldType |-> "textTabs", pageSize |-> PageSizeOf(792),
     options |-> EmptyOptions]

CallGetTabRectangle ==
    /\ rectOut.fn = "none"
    /\ rectOut' = [fn |-> "getTabRectangle",
                   rect |-> GetTabRectangle(rectIn.tab, rectIn.pageSize, rectIn.options)]
    /\ UNCHANGED rectIn

\* The functions of the translators read the tab's properties outside any
\* try of their own: they are applied to tab objects only.
CallTranslateFieldCoords ==
    /\ rectIn.tab.t = "object"
    /\ rectOut.fn = "none"
    /\ rectOut' = [fn |-> "translateField",
                   rect |-> TranslateFieldCoords(rectIn.fieldType, rectIn.tab,
                                                 rectIn.pageSize, rectIn.options)]
    /\ UNCHANGED rectIn

CallConvertDocuSignCoordinates ==
    /\ rectIn.tab.t = "object"
    /\ rectOut.fn = "none"
    /\ rectOut' = [fn |-> "convertDocuSignCoordinates",
                   rect |-> ConvertDocuSignCoordinates(rectIn.tab, rectIn.pageSize,
                                                       rectIn.fieldType)]
    /\ UNCHANGED rectIn

CallLegacyConvertDocuSignCoordinates ==
    /\ rectIn.tab.t = "object"
    /\ rectOut.fn = "none"
    /\ rectOut' = [fn |-> "legacyConvertDocuSignCoordinates",
                   rect |-> LegacyConvertDocuSignCoordinates(rectIn.tab, rectIn.pageSize)]
    /\ UNCHANGED rectIn

-----------------------------------------------------------------------------
(* The registry of js/field-translators.js *)

\* The keys of FIELD_TRANSLATORS, in the order of the source.
RegisteredKinds ==
    <<"textTabs", "signHereTabs", "initialHereTabs", "stampTabs", "checkboxTabs",
      "radioGroupTabs", "listTabs", "fullNameTabs", "dateSignedTabs", "companyTabs",
      "titleTabs", "emailAddressTabs", "numericalTabs", "signerAttachmentTabs">>

Kinds == {RegisteredKinds[i] : i \in 1..Len(RegisteredKinds)}

\* Names that FIELD_TRANSLATORS[name] finds on Object.prototype although the
\* registry has no such key.
InheritedKeys == {"constructor"}

\* The registry after the script has loaded: the enabled flag of every entry
\* is true (own), and the objects inherited from Object.prototype have no
\* enabled property (proto).
InitialRegistry ==
    [own |-> [k \in Kinds |-> BoolV(TRUE)],
     proto |-> [k \in InheritedKeys |-> Undefined]]

-----------------------------------------------------------------------------
(* Coordinate conversion: properties *)

\* The number n is what the tab gives under a key (v) or its "...String"
\* twin (vs), written in one of the ways an export writes it.
Given(v, vs, n) ==
    \/ v = NumV(n) /\ vs = Undefined
    \/ v = StrV(NumberToString(n)) /\ vs = Undefined
    \/ v = Undefined /\ vs = StrV(NumberToString(n))

\* A conversion that computes the rectangle from the tab ran (translateField
\* with a pre-computed options.rect computes nothing).
Converted(fns) ==
    /\ rectOut.fn \in fns
    /\ rectOut.rect.t = "object"
    /\ rectOut.fn = "translateField" => rectIn.options.rect.t = "undefined"

RectWidth  == Sub(rectOut.rect.urx, rectOut.rect.llx)
RectHeight == Sub(rectOut.rect.ury, rectOut.rect.lly)

\* C1: a tab with numeric x, y, width > 0 and height > 0 on a page of height
\* H converts (getTabRectangle, translateField's own conversion,
\* convertDocuSignCoordinates of js/field-translators.js) to llx = x,
\* urx = x + width, ury = H - y, lly = H - (y + height).
C1_CoordinateRoundTrip ==
    Converted({"getTabRectangle", "translateField", "convertDocuSignCoordinates"}) =>
        \A x \in XValues : Given(rectIn.tab.xPosition, rectIn.tab.xPositionString, x) =>
        \A y \in YValues : Given(rectIn.tab.yPosition, rectIn.tab.yPositionString, y) =>
        \A w \in SizeValues : (w > 0 /\ Given(rectIn.tab.width, rectIn.tab.widthString, w)) =>
        \A h \in SizeValues : (h > 0 /\ Given(rectIn.tab.height, rectIn.tab.heightString, h)) =>
            LET H == rectIn.pageSize.height.n
            IN  rectOut.rect = Rect(NumV(x), NumV(H - (y + h)), NumV(x + w), NumV(H - y))

\* C1 witness: the tab (x=10, y=20, width=100, height=15), its numbers written
\* as decimal strings, converted by getTabRectangle to {10, H-35, 110, H-20}.
C1_Witness ==
    /\ rectOut.fn = "getTabRectangle"
    /\ rectIn.tab.t = "object"
    /\ rectIn.tab.xPosition = StrV(<<"1", "0">>)
    /\ rectIn.tab.yPosition = StrV(<<"2", "0">>)
    /\ rectIn.tab.width = StrV(<<"1", "0", "0">>)
    /\ rectIn.tab.height = StrV(<<"1", "5">>)
    /\ rectOut.rect = Rect(NumV(10), NumV(rectIn.pageSize.height.n - 35), NumV(110),
                           NumV(rectIn.pageSize.height.n - 20))

\* The position of the tab parses to numbers.
PositionParses ==
    /\ IsNumber(rectOut.rect.llx)
    /\ IsNumber(rectOut.rect.ury)

\* C2: whatever the tab's width and height (zero, negative, unparseable),
\* the rectangle a conversion returns has a numeric width > 0 and a numeric
\* height > 0.
C2_DimensionsNeverDegenerate ==
    (Converted({"getTabRectangle", "translateField", "convertDocuSignCoordinates"})
        /\ PositionParses) =>
        /\ IsNumber(RectWidth) /\ RectWidth.n > 0
        /\ IsNumber(RectHeight) /\ RectHeight.n > 0

\* The tab gives width = 0 and height = 0, or neither.
ZeroOrAbsentSize(tab) ==
    /\ tab.widthString = Undefined /\ tab.heightString = Undefined
    /\ \/ tab.width = NumV(0) /\ tab.height = NumV(0)
       \/ tab.width = Undefined /\ tab.height = Undefined

\* C3: a checkbox tab with width = 0 and height = 0 (or both absent) gets a
\* 12x12 rectangle from getTabRectangle and from translateField alike.
C3_CheckboxClamp ==
    (Converted({"getTabRectangle", "translateField"})
        /\ rectIn.fieldType = "checkboxTabs"
        /\ ZeroOrAbsentSize(rectIn.tab)) =>
        /\ RectWidth = NumV(CheckboxDefaultSize)
        /\ RectHeight = NumV(CheckboxDefaultSize)

\* C4: every rectangle a conversion returns has urx >= llx and ury >= lly.
C4_RectangleOrdered ==
    Converted({"getTabRectangle", "translateField", "convertDocuSignCoordinates",
               "legacyConvertDocuSignCoordinates"}) =>
        /\ Leq(rectOut.rect.llx, rectOut.rect.urx)
        /\ Leq(rectOut.rect.lly, rectOut.rect.ury)

-----------------------------------------------------------------------------
(* js/converter.js: convertDocuSignToPDF *)

S_signhere    == <<"s", "i", "g", "n", "h", "e", "r", "e">>
S_initialhere == <<"i", "n", "i", "t", "i", "a", "l", "h", "e", "r", "e">>
S_datesigned  == <<"d", "a", "t", "e", "s", "i", "g", "n", "e", "d">>
S_date        == <<"d", "a", "t", "e">>
S_system      == <<"s", "y", "s", "t", "e", "m">>
S_hidden      == <<"h", "i", "d", "d", "e", "n">>
S_Field       == <<"F", "i", "e", "l", "d">>
S_SignaturePlaceholder == <<"[", "S", "i", "g", "n", "a", "t", "u", "r", "e", "]">>
S_DatePlaceholder      == <<"[", "D", "a", "t", "e", "]">>

\* String(v) and `${v}` of a string or an integer.
JsString(v) == IF v.t = "number" THEN StrV(NumberToString(v.n)) ELSE v

\* parseInt(v) of a number or a string of the inputs (no fraction).
ParseInt(v) == ParseFloat(JsString(v))

\* a === b of two primitive values.
SameValue(a, b) == a.t = b.t /\ a.t # "NaN" /\ a.n = b.n /\ a.s = b.s

\* The concatenation of the sequences of a sequence.
RECURSIVE Flatten(_)
Flatten(ss) == IF ss = <<>> THEN <<>> ELSE Head(ss) \o Flatten(Tail(ss))

\* getAllRecipientTabs: the tab lists of every signer, agent and editor, then
\* those of the legacy recipientTabs array.  A recipient is here the sequence
\* of the values of its tabs object, each an array of tabs.
GetAllRecipientTabs(templateData) ==
    Flatten(Flatten(templateData.recipients.signers))
    \o Flatten(Flatten(templateData.recipients.agents))
    \o Flatten(Flatten(templateData.recipients.editors))
    \o Flatten(Flatten(templateData.recipientTabs))

\* getTabName
GetTabName(tab, index) ==
    LET label == Or(Or(Or(tab.tabLabel, tab.name), tab.documentId), StrV(S_Field))
    IN  JsString(label).s \o <<"_">> \o NumberToString(index)

\* The system-tab test with `||` between the size and the position test.
IsSystemTabEither(tab) ==
    LET x == ParseFloat(Or(Or(tab.xPosition, tab.xPositionString), NumV(0)))
        y == ParseFloat(Or(Or(tab.yPosition, tab.yPositionString), NumV(0)))
        width == ParseFloat(Or(Or(tab.width, tab.widthString), NumV(0)))
        height == ParseFloat(Or(Or(tab.height, tab.heightString), NumV(0)))
        isVerySmall == Leq(width, NumV(1)) /\ Leq(height, NumV(1))
        isAtOrigin == StrictEq(x, NumV(0)) /\ StrictEq(y, NumV(0))
        hasSystemName ==
            /\ Truthy(tab.tabLabel)
            /\ \/ Includes(tab.tabLabel.s, <<"_">>)
                  /\ MatchesDigitsUnderscoreDigits(tab.tabLabel.s)
               \/ Includes(ToLowerCase(tab.tabLabel.s), S_system)
               \/ Includes(ToLowerCase(tab.tabLabel.s), S_hidden)
    IN  (isVerySmall \/ isAtOrigin) \/ hasSystemName

\* convertDocuSignToPDF, lines 109-131: the test that skips a system tab.
IsSystemTab(tab) ==
    LET x == ParseFloat(Or(Or(tab.xPosition, tab.xPositionString), NumV(0)))
        y == ParseFloat(Or(Or(tab.yPosition, tab.yPositionString), NumV(0)))
        width == ParseFloat(Or(Or(tab.width, tab.widthString), NumV(0)))
        height == ParseFloat(Or(Or(tab.height, tab.heightString), NumV(0)))
        isVerySmall == Leq(width, NumV(1)) /\ Leq(height, NumV(1))
        isAtOrigin == StrictEq(x, NumV(0)) /\ StrictEq(y, NumV(0))
        hasSystemName ==
            /\ Truthy(tab.tabLabel)
            /\ \/ Includes(tab.tabLabel.s, <<"_">>)
                  /\ MatchesDigitsUnderscoreDigits(tab.tabLabel.s)
               \/ Includes(ToLowerCase(tab.tabLabel.s), S_system)
               \/ Includes(ToLowerCase(tab.tabLabel.s), S_hidden)
    IN  (isVerySmall /\ isAtOrigin) \/ hasSystemName

\* A field of the output document: its name, its type, the merged page it is
\* on, its widget rectangle and its text.
Field(name, ft, page, rect, value) ==
    [name |-> name, ft |-> ft, page |-> page, rect |-> rect, value |-> value,
     items |-> <<>>]

\* A radio group or a dropdown: a field with options.
ChoiceField(name, ft, page, rect, value, items) ==
    [name |-> name, ft |-> ft, page |-> page, rect |-> rect, value |-> value,
     items |-> items]

\* addToPage(page, {x: llx, y: lly, width: urx - llx, height: ury - lly}): the
\* rectangle of the widget.
Widget(rect) ==
    Rect(rect.llx, rect.lly, Add(rect.llx, Sub(rect.urx, rect.llx)),
         Add(rect.lly, Sub(rect.ury, rect.lly)))

\* convertDocuSignToPDF, lines 153-170: which constructor the tab type
\* selects ("none": a signature tab with includeSignatureFields off).
ConstructorFor(tab, options) ==
    LET tabType == ToLowerCase(Or(Or(tab.tabType, tab.type), StrV(<<>>)).s)
    IN  IF Includes(tabType, S_text) \/ Truthy(tab.font) \/ Truthy(tab.text)
        THEN "createTextField"
        ELSE IF Includes(tabType, S_signhere) \/ Includes(tabType, S_initialhere)
        THEN IF Truthy(options.includeSignatureFields)
             THEN "createSignatureField" ELSE "none"
        ELSE IF Includes(tabType, S_datesigned) \/ Includes(tabType, S_date)
        THEN "createDateField"
        ELSE "createTextField"

\* A template with no document and no tab.
EmptyTemplate ==
    [documents |-> <<>>,
     recipients |-> [signers |-> <<>>, agents |-> <<>>, editors |-> <<>>],
     recipientTabs |-> <<>>]

\* No conversion is running.
ConvIdle ==
    [pc |-> "idle", templateData |-> EmptyTemplate, options |-> EmptyOptions,
     docIndex |-> 0, pdfDocs |-> <<>>, mergeIndex |-> 0, pages |-> <<>>,
     pageMapping |-> <<>>, tabs |-> <<>>, i |-> 0, fields |-> <<>>, log |-> <<>>,
     error |-> "", returned |-> FALSE]

\* The catch of convertDocuSignToPDF: the error is rethrown, nothing returned.
ConvThrow(c, message) ==
    [c EXCEPT !.pc = "failed", !.error = message, !.returned = FALSE]

\* Lines 21-27: the call, up to the first document.
ConvertStartWith(templateData, options) ==
    LET c == [ConvIdle EXCEPT !.templateData = templateData, !.options = options]
    IN  IF Len(templateData.documents) = 0
        THEN ConvThrow(c, "No documents found in template JSON")
        ELSE [c EXCEPT !.pc = "load", !.docIndex = 1]

\* The loading loop without the catch around PDFDocument.load taking effect:
\* a document whose bytes do not load is kept.
LoadDocumentStepKeepsUnloaded(c) ==
    LET doc == c.templateData.documents[c.docIndex]
        docId == doc.documentId
        base64Data == Or(doc.documentBase64, doc.documentBase64Bytes)
        pdfDocs == IF Truthy(base64Data)
                   THEN Append(c.pdfDocs, [docId |-> docId, pdfDoc |-> doc.pdf])
                   ELSE c.pdfDocs
        c1 == [c EXCEPT !.pdfDocs = pdfDocs, !.docIndex = c.docIndex + 1]
    IN  IF c.docIndex < Len(c.templateData.documents) THEN c1
        ELSE IF Len(pdfDocs) = 0
        THEN ConvThrow(c1, "No valid PDF documents found in template")
        ELSE [c1 EXCEPT !.pc = "merge", !.mergeIndex = 1]

\* The loading loop with the error of PDFDocument.load left uncaught: a
\* document whose bytes do not load ends the call.
LoadDocumentStepAborts(c) ==
    LET doc == c.templateData.documents[c.docIndex]
        docId == doc.documentId
        base64Data == Or(doc.documentBase64, doc.documentBase64Bytes)
        pdfDocs == IF Truthy(base64Data) /\ doc.pdf.valid
                   THEN Append(c.pdfDocs, [docId |-> docId, pdfDoc |-> doc.pdf])
                   ELSE c.pdfDocs
        c1 == [c EXCEPT !.pdfDocs = pdfDocs, !.docIndex = c.docIndex + 1]
    IN  IF Truthy(base64Data) /\ ~doc.pdf.valid THEN ConvThrow(c1, "load")
        ELSE IF c.docIndex < Len(c.templateData.documents) THEN c1
        ELSE IF Len(pdfDocs) = 0
        THEN ConvThrow(c1, "No valid PDF documents found in template")
        ELSE [c1 EXCEPT !.pc = "merge", !.mergeIndex = 1]

\* Lines 31-51: one document of the loading loop, and the test that follows
\* the loop when it was the last one.
LoadDocumentStep(c) ==
    LET doc == c.templateData.documents[c.docIndex]
        docId == doc.documentId
        base64Data == Or(doc.documentBase64, doc.documentBase64Bytes)
        pdfDocs == IF Truthy(base64Data) /\ doc.pdf.valid
                   THEN Append(c.pdfDocs, [docId |-> docId, pdfDoc |-> doc.pdf])
                   ELSE c.pdfDocs
        c1 == [c EXCEPT !.pdfDocs = pdfDocs, !.docIndex = c.docIndex + 1]
    IN  IF c.docIndex < Len(c.templateData.documents) THEN c1
        ELSE IF Len(pdfDocs) = 0
        THEN ConvThrow(c1, "No valid PDF documents found in template")
        ELSE [c1 EXCEPT !.pc = "merge", !.mergeIndex = 1]

\* The merge step with endPage one too far: the page count in place of the
\* index of the last page.
MergeDocumentStepEndPageCount(c) ==
    LET entry == c.pdfDocs[c.mergeIndex]
        startPage == Len(c.pages)
        pages == c.pages \o [k \in 1..entry.pdfDoc.pageCount |-> entry.pdfDoc.pageHeight]
        mapping == [docId |-> entry.docId, startPage |-> startPage,
                    endPage |-> Len(pages), totalPages |-> entry.pdfDoc.pageCount]
        c1 == [c EXCEPT !.pages = pages,
                        !.pageMapping = Append(c.pageMapping, mapping),
                        !.mergeIndex = c.mergeIndex + 1]
    IN  IF c.mergeIndex < Len(c.pdfDocs) THEN c1
        ELSE [c1 EXCEPT !.pc = "tabs", !.i = 0,
                        !.tabs = GetAllRecipientTabs(c.templateData)]

\* Lines 58-76: one loaded document of the merge loop, and the collection of
\* the tabs when it was the last one.
MergeDocumentStep(c) ==
    LET entry == c.pdfDocs[c.mergeIndex]
        startPage == Len(c.pages)
        pages == c.pages \o [k \in 1..entry.pdfDoc.pageCount |-> entry.pdfDoc.pageHeight]
        mapping == [docId |-> entry.docId, startPage |-> startPage,
                    endPage |-> Len(pages) - 1, totalPages |-> entry.pdfDoc.pageCount]
        c1 == [c EXCEPT !.pages = pages,
                        !.pageMapping = Append(c.pageMapping, mapping),
                        !.mergeIndex = c.mergeIndex + 1]
    IN  IF c.mergeIndex < Len(c.pdfDocs) THEN c1
        ELSE [c1 EXCEPT !.pc = "tabs", !.i = 0,
                        !.tabs = GetAllRecipientTabs(c.templateData)]

\* pageMapping.find(mapping => mapping.docId === docId): the index of the
\* first match, 0 when there is none.
FindPageMapping(pageMapping, docId) ==
    IF \E k \in 1..Len(pageMapping) : SameValue(pageMapping[k].docId, docId)
    THEN CHOOSE k \in 1..Len(pageMapping) :
            /\ SameValue(pageMapping[k].docId, docId)
            /\ \A j \in 1..(k - 1) : ~SameValue(pageMapping[j].docId, docId)
    ELSE 0

\* The loop going on after writing the string form of the document id back
\* into the tab it has handled.
NextTabNormalisingTab(c, outcome) ==
    [c EXCEPT !.i = c.i + 1, !.log = Append(c.log, outcome),
              !.tabs[c.i + 1].documentId = JsString(@)]

\* The loop goes on to the next tab; what became of this one is noted.
NextTab(c, outcome) ==
    [c EXCEPT !.i = c.i + 1, !.log = Append(c.log, outcome)]

\* What the pdf-lib form does with a new field: it takes it ("ok"),
\* form.create...() throws ("createThrows"), or addToPage throws after the
\* field was created ("addThrows": the field stays in the form, on no page).
FormOutcomes == {"ok", "createThrows", "addThrows"}

\* The fields of the document after a constructor ran, and whether it threw.
Attempt(fields, threw) == [fields |-> fields, threw |-> threw]

\* The field has a widget on a page.
Placed(f) == f.rect.t = "object" \/ f.items # <<>>

\* createTextField (lines 274-290).  setText takes a string or undefined.
CreateTextField(fields, page, name, rect, defaultValue, form) ==
    IF form = "createThrows" THEN Attempt(fields, TRUE)
    ELSE IF defaultValue.t \notin {"string", "undefined"}
    THEN Attempt(Append(fields, Field(name, "text", page, Null, Undefined)), TRUE)
    ELSE IF form = "addThrows"
    THEN Attempt(Append(fields, Field(name, "text", page, Null, defaultValue)), TRUE)
    ELSE Attempt(Append(fields, Field(name, "text", page, Widget(rect), defaultValue)),
                 FALSE)

\* createSignatureField (lines 301-328); sigOk: form.createSignatureField
\* exists and takes the field.  options is whatever the caller passes: the
\* converter's options object, or a string from the translators.
CreateSignatureField(fields, page, name, rect, options, sigOk, form) ==
    LET signatureAsText ==
            IF options.t = "object" THEN options.signatureAsText ELSE Undefined
    IN  IF Truthy(signatureAsText)
        THEN CreateTextField(fields, page, name, rect, StrV(S_SignaturePlaceholder), form)
        ELSE IF sigOk
        THEN Attempt(Append(fields, Field(name, "signature", page, Widget(rect),
                                          Undefined)), FALSE)
        ELSE CreateTextField(fields, page, name, rect, StrV(S_SignaturePlaceholder), form)

\* createDateField (lines 338-341)
CreateDateField(fields, page, name, rect, form) ==
    CreateTextField(fields, page, name, rect, StrV(S_DatePlaceholder), form)

\* Lines 79-171: the body of the tab loop for tabs[i].
ProcessTabStep(c, sigOk, form) ==
    LET tab == c.tabs[c.i + 1]
        options == c.options
        docId == IF Truthy(tab.documentId) THEN JsString(tab.documentId) ELSE Null
        pageNumber == ParseInt(Or(Or(tab.pageNumber, tab.page), NumV(1)))
        k == FindPageMapping(c.pageMapping, docId)
        absolutePageIndex ==
            Add(NumV(c.pageMapping[k].startPage),
                MathMax(NumV(0), Sub(pageNumber, NumV(1))))
        pageSize == [height |-> NumV(c.pages[absolutePageIndex.n + 1])]
        rect == GetTabRectangle(tab, pageSize, options)
        fieldName == GetTabName(tab, c.i)
        given == Or(Or(tab.value, tab.defaultValue), StrV(<<>>))
        defaultValue ==
            IF Truthy(options.showFieldNames) /\ ~Truthy(given)
            THEN StrV(<<"[">> \o fieldName \o <<"]">>)
            ELSE given
        constructor == ConstructorFor(tab, options)
    IN  IF k = 0 THEN NextTab(c, "noPageMapping")
        ELSE IF ~IsNumber(absolutePageIndex)
        THEN ConvThrow(NextTab(c, "getPageThrew"), "getPage")
        ELSE IF absolutePageIndex.n >= Len(c.pages) THEN NextTab(c, "noPage")
        ELSE IF rect.t # "object" THEN NextTab(c, "invalidCoordinates")
        ELSE IF ~Truthy(options.includeSystemTabs) /\ IsSystemTab(tab)
        THEN NextTab(c, "systemTab")
        ELSE IF constructor = "none" THEN NextTab(c, "signatureFieldsOff")
        ELSE LET attempt ==
                    CASE constructor = "createTextField" ->
                            CreateTextField(c.fields, absolutePageIndex.n, fieldName,
                                            rect, defaultValue, form)
                      [] constructor = "createSignatureField" ->
                            CreateSignatureField(c.fields, absolutePageIndex.n, fieldName,
                                                 rect, options, sigOk, form)
                      [] OTHER ->
                            CreateDateField(c.fields, absolutePageIndex.n, fieldName,
                                            rect, form)
                 c1 == [c EXCEPT !.fields = attempt.fields]
             IN  IF attempt.threw THEN ConvThrow(NextTab(c1, "threw"), "createField")
                 ELSE NextTab(c1, "created")

\* Lines 173-179: masking (it draws on the pages and adds no field), then
\* save; saveOk: the library serialises the document.
FinishStep(c, saveOk) ==
    IF saveOk THEN [c EXCEPT !.pc = "done", !.returned = TRUE]
    ELSE ConvThrow(c, "save")

-----------------------------------------------------------------------------
(* SpecConvert: one call of convertDocuSignToPDF on bounded templates *)

MaxTabs == 2

S_Text      == <<"T", "e", "x", "t">>
S_SignHere  == <<"S", "i", "g", "n", "H", "e", "r", "e">>
S_DateSigned == <<"D", "a", "t", "e", "S", "i", "g", "n", "e", "d">>
S_Checkbox  == <<"C", "h", "e", "c", "k", "b", "o", "x">>
S_Date      == <<"D", "a", "t", "e">>
S_JVBERi    == <<"J", "V", "B", "E", "R", "i">>
S_SignerAttachment == <<"S", "i", "g", "n", "e", "r">> \o <<"A", "t", "t", "a", "c", "h", "m", "e", "n", "t">>
S_FileAttachment   == <<"F", "i", "l", "e">> \o <<"A", "t", "t", "a", "c", "h", "m", "e", "n", "t">>
S_SignHereAttachment == S_SignHere \o <<" ", "A", "t", "t", "a", "c", "h", "m", "e", "n", "t">>

\* A document: pdf is what its bytes hold (whether PDFDocument.load accepts
\* them, the number of pages, the height of the pages).
Document(id, base64, valid, pageCount) ==
    [documentId |-> id, documentBase64 |-> base64, documentBase64Bytes |-> Undefined,
     pdf |-> [valid |-> valid, pageCount |-> pageCount, pageHeight |-> 792]]

DocOne     == Document(StrV(<<"1">>), StrV(S_JVBERi), TRUE, 2)
DocNoData  == Document(StrV(<<"2">>), Undefined, TRUE, 1)
DocCorrupt == Document(StrV(<<"3">>), StrV(S_abc), FALSE, 0)
DocFour    == Document(StrV(<<"4">>), StrV(S_JVBERi), TRUE, 1)

\* Document 1 again, its id a number.
DocNumberOne == Document(NumV(1), StrV(S_JVBERi), TRUE, 2)

\* A text tab of document 1, page 1, at (10, 20), 100 x 15.
TextTab ==
    [EmptyTab EXCEPT !.tabType = StrV(S_Text), !.documentId = StrV(<<"1">>),
                     !.pageNumber = StrV(<<"1">>),
                     !.xPosition = NumV(10), !.yPosition = NumV(20),
                     !.width = NumV(100), !.height = NumV(15)]

\* The sizes the system-tab filter is tried on: absent, around its threshold
\* of 1, and an ordinary one.
FilterSizes == {Undefined, NumV(100), StrV(<<"1">>)} \cup {NumV(n) : n \in 0..MaxSize}

FilterLabels ==
    {Undefined, StrV(<<>>), StrV(S_Date), StrV(<<"1", "2", "_", "3">>), StrV(<<"7", "0", "0", "8", "1", "3", "1", "1", "_", "2", "3", "7">>), StrV(<<"1", "_">>), StrV(<<"_", "1">>),
     StrV(<<"a", "1", "_", "2">>), StrV(<<"1", "2", "_", "3", "x">>), StrV(<<"S", "y", "s", "t", "e", "m", "1">>), StrV(<<"m", "y", "_", "h", "i", "d", "d", "e", "n", "_", "t", "a", "b">>), StrV(<<"H", "I", "D", "D", "E", "N">>)}

\* Of FilterLabels, those that match /^\d+_\d+$/ or contain "system" or
\* "hidden" whatever the case.
SystemLabels ==
    {StrV(<<"1", "2", "_", "3">>), StrV(<<"7", "0", "0", "8", "1", "3", "1", "1", "_", "2", "3", "7">>), StrV(<<"S", "y", "s", "t", "e", "m", "1">>), StrV(<<"m", "y", "_", "h", "i", "d", "d", "e", "n", "_", "t", "a", "b">>), StrV(<<"H", "I", "D", "D", "E", "N">>)}

FilterTabs ==
    {[TextTab EXCEPT !.xPosition = NumV(x), !.yPosition = NumV(y),
                     !.width = w, !.height = h] :
        x \in {0, 10}, y \in {0, 20}, w \in FilterSizes, h \in FilterSizes}
    \cup {[TextTab EXCEPT !.tabLabel = l] : l \in FilterLabels}
    \cup {[TextTab EXCEPT !.tabLabel = l, !.xPosition = NumV(0), !.yPosition = NumV(0),
                          !.width = NumV(1), !.height = NumV(1)] :
            l \in {Undefined, StrV(S_Date)}}
    \cup {[TextTab EXCEPT !.xPosition = Undefined, !.yPosition = Undefined,
                          !.xPositionString = StrV(<<"0">>),
                          !.yPositionString = StrV(<<"0">>),
                          !.width = Undefined, !.height = Undefined]}

\* Tabs of the other kinds, and tabs that cannot be placed.
CoreTabs ==
    {TextTab,
     [TextTab EXCEPT !.tabType = StrV(S_SignHere), !.tabLabel = StrV(<<"S", "i", "g">>)],
     [TextTab EXCEPT !.tabType = StrV(S_DateSigned), !.pageNumber = NumV(2)],
     [TextTab EXCEPT !.tabType = StrV(S_Checkbox), !.value = StrV(<<"X">>)],
     [TextTab EXCEPT !.xPosition = StrV(S_abc)],
     [TextTab EXCEPT !.documentId = StrV(<<"9">>)],
     [TextTab EXCEPT !.pageNumber = NumV(3)]}

\* Tabs whose type names an attachment, in the spelling of DocuSign, in lower
\* case, and in free-text variants.
AttachmentTabs ==
    {[TextTab EXCEPT !.tabType = StrV(tabType)] :
        tabType \in {S_SignerAttachment, ToLowerCase(S_SignerAttachment),
                     S_FileAttachment, S_SignHereAttachment}}
    \cup {[TextTab EXCEPT !.tabType = Undefined, !.type = StrV(S_SignerAttachment)]}

\* Tabs that carry a stampType, next to a type that agrees with it or not.
S_InitialHere == <<"I", "n", "i", "t", "i", "a", "l", "H", "e", "r", "e">>

\* Signature and initials tabs smaller and larger than the minimum sizes.
SizedSignatureTabs ==
    {[TextTab EXCEPT !.tabType = StrV(tabType), !.width = NumV(size[1]),
                     !.height = NumV(size[2])] :
        tabType \in {S_SignHere, S_InitialHere}, size \in {<<50, 10>>, <<200, 30>>}}

StampTypedTabs ==
    {[TextTab EXCEPT !.tabType = StrV(tabType), !.stampType = StrV(stampType)] :
        tabType \in {S_Text, S_Date, S_SignHere},
        stampType \in {<<"s", "i", "g", "n", "a", "t", "u", "r", "e">>,
                       <<"i", "n", "i", "t", "i", "a", "l", "s">>,
                       <<"s", "t", "a", "m", "p">>}}

\* One signer holding the tabs in one list, or in two lists of which the
\* second is in the legacy recipientTabs array.
TemplateOf(documents, tabs) ==
    [EmptyTemplate EXCEPT !.documents = documents,
                          !.recipients.signers = << <<tabs>> >>]

LegacyTemplateOf(documents, tabs) ==
    [EmptyTemplate EXCEPT !.documents = documents,
                          !.recipients.signers = << << <<Head(tabs)>> >> >>,
                          !.recipientTabs = << <<Tail(tabs)>> >>]

\* One document and one tab of it, each id a string or a number.
NumberIdTemplates ==
    {TemplateOf(<<doc>>, <<[TextTab EXCEPT !.documentId = id]>>) :
        doc \in {DocOne, DocNumberOne}, id \in {StrV(<<"1">>), NumV(1)}}

CoreTabLists == UNION {[1..n -> CoreTabs] : n \in 1..MaxTabs}

\* Templates of several documents, of which some cannot be loaded, and tabs
\* of each of them, on a page the document has or on one past its last.
DocumentLists ==
    {<<DocOne, DocFour>>, <<DocOne, DocNoData, DocFour>>, <<DocCorrupt, DocFour, DocOne>>}

DocumentTabs ==
    {[TextTab EXCEPT !.documentId = StrV(<<d>>), !.pageNumber = NumV(1)] :
        d \in {"1", "2", "3", "4"}}
    \cup {[TextTab EXCEPT !.pageNumber = NumV(3)],
          [TextTab EXCEPT !.documentId = StrV(<<"4">>), !.pageNumber = NumV(2)]}

DocumentTabLists == UNION {[1..n -> DocumentTabs] : n \in 1..MaxTabs}

\* A two-page document with a SignHere tab and a Text tab on page 1 and a
\* selected Checkbox tab on page 2.
SignTextCheckboxTemplate ==
    TemplateOf(<<DocOne>>,
               <<[TextTab EXCEPT !.tabType = StrV(S_SignHere),
                                 !.tabLabel = StrV(<<"S", "i", "g">>)],
                 [TextTab EXCEPT !.yPosition = NumV(60)],
                 [TextTab EXCEPT !.tabType = StrV(S_Checkbox), !.pageNumber = NumV(2),
                                 !.selected = BoolV(TRUE)]>>)

Templates ==
    {TemplateOf(<<DocOne>>, <<tab>>) : tab \in FilterTabs}
    \cup {SignTextCheckboxTemplate}
    \cup {TemplateOf(<<DocOne>>, <<tab>>) : tab \in AttachmentTabs}
    \cup {TemplateOf(<<DocOne>>, <<tab>>) : tab \in StampTypedTabs}
    \cup {TemplateOf(<<DocOne>>, <<tab>>) : tab \in SizedSignatureTabs}
    \cup NumberIdTemplates
    \cup {TemplateOf(<<DocOne>>, tabs) : tabs \in CoreTabLists}
    \cup {LegacyTemplateOf(<<DocCorrupt, DocOne>>, tabs) : tabs \in CoreTabLists}
    \cup {TemplateOf(docs, tabs) : docs \in DocumentLists, tabs \in DocumentTabLists}
    \cup {TemplateOf(docs, <<TextTab>>) :
            docs \in {<<>>, <<DocNoData>>, <<DocCorrupt, DocNoData>>, <<DocNoData, DocOne>>}}

ConvOptions ==
    {[EmptyOptions EXCEPT !.includeSystemTabs = sys, !.includeSignatureFields = sig] :
        sys \in {Undefined, BoolV(FALSE), BoolV(TRUE)},
        sig \in {Undefined, BoolV(TRUE)}}
    \cup {[EmptyOptions EXCEPT !.includeSignatureFields = BoolV(TRUE),
                               !.signatureAsText = BoolV(TRUE)],
          [EmptyOptions EXCEPT !.showFieldNames = BoolV(TRUE)],
          [EmptyOptions EXCEPT !.fieldWidth = NumV(80), !.fieldHeight = NumV(30)]}

ConvertStart ==
    /\ conv.pc = "idle"
    /\ \E templateData \in Templates, options \in ConvOptions :
          conv' = ConvertStartWith(templateData, options)

LoadDocument ==
    /\ conv.pc = "load"
    /\ conv' = LoadDocumentStep(conv)

MergeDocument ==
    /\ conv.pc = "merge"
    /\ conv' = MergeDocumentStep(conv)

ProcessTab ==
    /\ conv.pc = "tabs"
    /\ conv.i < Len(conv.tabs)
    /\ \E sigOk \in BOOLEAN, form \in FormOutcomes :
          conv' = ProcessTabStep(conv, sigOk, form)

Finish ==
    /\ conv.pc = "tabs"
    /\ conv.i = Len(conv.tabs)
    /\ \E saveOk \in BOOLEAN : conv' = FinishStep(conv, saveOk)

-----------------------------------------------------------------------------
(* convertDocuSignToPDF: properties *)

\* C5: a tab of which x, y, width or height does not parse to a number is
\* skipped (getTabRectangle returns null for it), so that no field of the
\* output has a rectangle with a non-numeric coordinate.
C5_NoFieldFromNonNumericRectangle ==
    \A j \in 1..Len(conv.fields) :
      Placed(conv.fields[j]) =>
        /\ IsNumber(conv.fields[j].rect.llx)
        /\ IsNumber(conv.fields[j].rect.lly)
        /\ IsNumber(conv.fields[j].rect.urx)
        /\ IsNumber(conv.fields[j].rect.ury)

\* The tab gives, under a key or its "...String" twin, a size of at most 1
\* (none given counts as 0).
AtMostOne(v, vs) ==
    \/ v = Undefined /\ vs = Undefined
    \/ \E n \in (0 - MaxSize)..1 : Given(v, vs, n)

\* The tab gives the coordinate 0 (none given counts as 0).
ExactlyZero(v, vs) ==
    \/ v = Undefined /\ vs = Undefined
    \/ Given(v, vs, 0)

TinyAtOrigin(tab) ==
    /\ AtMostOne(tab.width, tab.widthString)
    /\ AtMostOne(tab.height, tab.heightString)
    /\ ExactlyZero(tab.xPosition, tab.xPositionString)
    /\ ExactlyZero(tab.yPosition, tab.yPositionString)

\* The tab reached the system-tab filter of the loop.
ReachedFilter(j) ==
    conv.log[j] \notin {"noPageMapping", "noPage", "invalidCoordinates", "getPageThrew"}

C11_FieldFailureNeverAborts ==
    \A j \in 1..Len(conv.log) :
        conv.log[j] = "threw" =>
            /\ conv.pc # "failed"
            /\ (conv.pc = "done" => conv.returned /\ Len(conv.log) = Len(conv.tabs))

\* No merged document has the id the tab names.
NoMatchingMapping(tab) ==
    \A k \in 1..Len(conv.pageMapping) :
        JsString(conv.pageMapping[k].docId) # JsString(tab.documentId)

\* The page the tab names lies beyond the last merged page.
PageOutOfRange(tab) ==
    /\ ~NoMatchingMapping(tab)
    /\ \E k \in 1..Len(conv.pageMapping), n \in 1..(Len(conv.pages) + 1) :
          /\ JsString(conv.pageMapping[k].docId) = JsString(tab.documentId)
          /\ tab.pageNumber \in {NumV(n), StrV(NumberToString(n))}
          /\ conv.pageMapping[k].startPage + n - 1 >= Len(conv.pages)

\* A position or a size of the tab is given and is not a number.
UnparseableGeometry(tab) ==
    \E v \in {tab.xPosition, tab.yPosition, tab.width, tab.height} :
        v.t = "string" /\ (v.s = <<>> \/ ~IsDigit(v.s[1]))

\* The outcomes of the loop that skip the tab and go on.
Skipped == {"noPageMapping", "noPage", "invalidCoordinates"}

\* C15: a tab with no matching page mapping, with a page index out of range
\* or with unparseable geometry is skipped: the loop goes on to the next tab
\* without having created a field for it.
C15_UnplaceableTabSkipped ==
    \A j \in 1..Len(conv.log) :
        ( \/ NoMatchingMapping(conv.tabs[j])
          \/ PageOutOfRange(conv.tabs[j])
          \/ UnparseableGeometry(conv.tabs[j]) )
        => /\ conv.log[j] \in Skipped
           /\ \A f \in 1..Len(conv.fields) :
                 conv.fields[f].name # GetTabName(conv.tabs[j], j - 1)

\* The field was created for tabs[j] (getTabName puts the loop index in the
\* name).
FieldOfTab(f, j) == conv.fields[f].name = GetTabName(conv.tabs[j], j - 1)

\* The entry of the page mapping for the document the tab names.
MappingOfTab(tab, k) ==
    JsString(conv.pageMapping[k].docId) = JsString(tab.documentId)

\* C16: every field created for a tab is on a merged page of the tab's own
\* document, within that document's [startPage, endPage]; a tab whose
\* pageNumber exceeds the page count of its document is dropped.
C16_FieldOnOwnDocument ==
    \A j \in 1..Len(conv.log) :
        /\ \A f \in 1..Len(conv.fields) :
              FieldOfTab(f, j) =>
                \E k \in 1..Len(conv.pageMapping) :
                    /\ MappingOfTab(conv.tabs[j], k)
                    /\ conv.pageMapping[k].startPage <= conv.fields[f].page
                    /\ conv.fields[f].page <= conv.pageMapping[k].endPage
        /\ \A k \in 1..Len(conv.pageMapping) :
              ( /\ MappingOfTab(conv.tabs[j], k)
                /\ \E n \in 1..(Len(conv.pages) + 1) :
                      /\ conv.tabs[j].pageNumber \in {NumV(n), StrV(NumberToString(n))}
                      /\ n > conv.pageMapping[k].totalPages )
              => conv.log[j] \in Skipped

\* The document has data, and the data loads as a PDF.
DocumentLoads(doc) ==
    /\ \/ doc.documentBase64 \notin {Undefined, StrV(<<>>)}
       \/ doc.documentBase64Bytes \notin {Undefined, StrV(<<>>)}
    /\ doc.pdf.valid

\* The template has no document, or none that has data and loads.
NoLoadableDocument(templateData) ==
    \A d \in 1..Len(templateData.documents) : ~DocumentLoads(templateData.documents[d])

\* The errors of convertDocuSignToPDF for a template without usable documents.
NoDocumentErrors ==
    {"No documents found in template JSON", "No valid PDF documents found in template"}

\* C17: called on a template with no document, or with none that can be
\* decoded, convertDocuSignToPDF raises one error, that of the missing
\* documents, as soon as the loading loop is over: no page is merged and no
\* tab is processed before it, and nothing is returned.
C17_NoDocumentsOneError ==
    conv.pc # "idle" /\ NoLoadableDocument(conv.templateData) =>
        /\ conv.pc \in {"load", "failed"}
        /\ conv.pc = "load" => conv.docIndex <= Len(conv.templateData.documents)
        /\ conv.pc = "failed" => conv.error \in NoDocumentErrors
        /\ conv.pages = <<>> /\ conv.pageMapping = <<>>
        /\ conv.log = <<>> /\ conv.fields = <<>>
        /\ ~conv.returned

\* C17 witness: the call on a corrupt document and a document without data
\* has failed with the error of the loading loop.
C17_Witness ==
    /\ conv.pc = "failed"
    /\ conv.error = "No valid PDF documents found in template"
    /\ conv.templateData.documents = <<DocCorrupt, DocNoData>>
    /\ conv.docIndex = 3
    /\ conv.pages = <<>> /\ conv.log = <<>>
    /\ ~conv.returned

\* The documents of the template that load, in the order of the template.
LoadedDocuments == SelectSeq(conv.templateData.documents, DocumentLoads)

\* The number of pages of the first n loaded documents.
RECURSIVE PagesBefore(_)
PagesBefore(n) ==
    IF n = 0 THEN 0 ELSE PagesBefore(n - 1) + LoadedDocuments[n].pdf.pageCount

\* The tab names a document of the template that was skipped.
TabOfSkippedDocument(tab) ==
    /\ \E d \in 1..Len(conv.templateData.documents) :
          conv.templateData.documents[d].documentId = tab.documentId
    /\ \A d \in 1..Len(LoadedDocuments) : LoadedDocuments[d].documentId # tab.documentId

\* C18: a document without data, or whose bytes do not load, is skipped and
\* the call goes on: the other documents are merged in their order in the
\* template, each tab of a skipped document is dropped, and a tab on the first
\* page of a merged document gets its field, on that page.
C18_UnloadableDocumentSkipped ==
    LoadedDocuments # <<>> =>
        /\ conv.pc \in {"tabs", "done", "failed"} =>
            /\ Len(conv.pageMapping) = Len(LoadedDocuments)
            /\ \A k \in 1..Len(conv.pageMapping) :
                  /\ conv.pageMapping[k].docId = LoadedDocuments[k].documentId
                  /\ conv.pageMapping[k].startPage = PagesBefore(k - 1)
            /\ Len(conv.pages) = PagesBefore(Len(LoadedDocuments))
        /\ \A j \in 1..Len(conv.log) :
            /\ TabOfSkippedDocument(conv.tabs[j]) =>
                  /\ conv.log[j] = "noPageMapping"
                  /\ \A f \in 1..Len(conv.fields) : ~FieldOfTab(f, j)
            /\ \A k \in 1..Len(LoadedDocuments) :
                  ( /\ conv.tabs[j] \in DocumentTabs
                    /\ conv.tabs[j].documentId = LoadedDocuments[k].documentId
                    /\ conv.tabs[j].pageNumber = NumV(1)
                    /\ conv.log[j] # "threw" )
                  => /\ conv.log[j] = "created"
                     /\ \E f \in 1..Len(conv.fields) :
                           /\ FieldOfTab(f, j)
                           /\ conv.fields[f].page = PagesBefore(k - 1)

\* C18 witness: of a two-page document, a document without data and a
\* one-page document, the first and the third were merged; the tab of the
\* second was dropped and the tab of the third got its field on page 2.
C18_Witness ==
    /\ conv.pc = "done"
    /\ conv.templateData.documents = <<DocOne, DocNoData, DocFour>>
    /\ Len(conv.pageMapping) = 2
    /\ conv.pageMapping[2].docId = StrV(<<"4">>)
    /\ conv.log = <<"noPageMapping", "created">>
    /\ conv.tabs[1].documentId = StrV(<<"2">>)
    /\ conv.tabs[2].documentId = StrV(<<"4">>)
    /\ Len(conv.fields) = 1
    /\ conv.fields[1].page = 2

\* The kind of field a SignHere, Text or Checkbox tab stands for.
OwnKind(tab) ==
    CASE tab.tabType = StrV(S_SignHere) -> "signature"
      [] tab.tabType = StrV(S_Checkbox) -> "checkbox"
      [] OTHER -> "text"

\* C19: after a conversion with default options, every tab that passed the
\* page mapping, the geometry parsing and the system-tab filter has exactly
\* one field, of its own kind; the template with a SignHere tab and a Text tab
\* on page 1 and a selected Checkbox tab on page 2 has 3 fields, that of the
\* checkbox being a checked checkbox.
C19_OneFieldPerTabOfItsKind ==
    conv.pc = "done" /\ conv.options = EmptyOptions =>
        /\ \A j \in 1..Len(conv.log) :
              conv.log[j] \notin Skipped \cup {"systemTab"} =>
                /\ \E f \in 1..Len(conv.fields) :
                      /\ FieldOfTab(f, j)
                      /\ \A g \in 1..Len(conv.fields) : FieldOfTab(g, j) => g = f
                /\ conv.tabs[j].tabType \in {StrV(S_SignHere), StrV(S_Text), StrV(S_Checkbox)} =>
                      \A f \in 1..Len(conv.fields) :
                          FieldOfTab(f, j) => conv.fields[f].ft = OwnKind(conv.tabs[j])
        /\ conv.templateData = SignTextCheckboxTemplate =>
              /\ Len(conv.fields) = 3
              /\ conv.fields[3].ft = "checkbox"
              /\ conv.fields[3].value = BoolV(TRUE)

\* The type of the tab (tabType, else type) contains "attachment" in any case;
\* "signerattachment" does.
IsAttachmentType(tab) ==
    LET given == IF tab.tabType # Undefined THEN tab.tabType ELSE tab.type
    IN  /\ given.t = "string"
        /\ Includes(ToLowerCase(given.s), <<"a", "t", "t", "a", "c", "h", "m", "e", "n", "t">>)

\* C20: a tab whose type is "signerattachment" or contains "attachment", in
\* any case, is handled as an attachment and never as a signature: the
\* signature switch does not suppress it, and the field created for it is a
\* text field that does not hold the signature placeholder.
C20_AttachmentNeverSignature ==
    \A j \in 1..Len(conv.log) :
        IsAttachmentType(conv.tabs[j]) =>
            /\ conv.log[j] # "signatureFieldsOff"
            /\ \A f \in 1..Len(conv.fields) :
                  FieldOfTab(f, j) =>
                      /\ conv.fields[f].ft = "text"
                      /\ conv.fields[f].value # StrV(S_SignaturePlaceholder)

\* C21: a tab with stampType "signature", "initials" or "stamp" is handled as
\* a signature, initials or stamp tab whatever its tabType says: it is
\* subject to the signature switch, and the field created for it is a
\* signature field or the signature placeholder.
C21_StampTypeHasPriority ==
    \A j \in 1..Len(conv.log) :
        ( /\ conv.tabs[j].stampType.t = "string"
          /\ conv.log[j] \notin Skipped \cup {"systemTab", "threw"} )
        => \/ conv.log[j] = "signatureFieldsOff"
           \/ \E f \in 1..Len(conv.fields) :
                 /\ FieldOfTab(f, j)
                 /\ \/ conv.fields[f].ft = "signature"
                    \/ conv.fields[f].value = StrV(S_SignaturePlaceholder)


\* The minimum width and height of the widget of a signature tab: 120 x 20
\* for a full signature, 100 x 25 for initials.
MinimumSizeOf(tab) ==
    IF Includes(ToLowerCase(tab.tabType.s), S_initialhere) THEN <<100, 25>>
    ELSE <<120, 20>>

\* C26: the signature constructor enforces the minimum size whatever
\* rectangle it is given: the widget of a full signature is at least 120 wide
\* and 20 high, the widget of an initials field at least 100 wide and 25 high,
\* also when the rectangle handed to it is smaller.
C26_SignatureMinimumSize ==
    \A j \in 1..Len(conv.log) : \A f \in 1..Len(conv.fields) :
        ( /\ FieldOfTab(f, j)
          /\ conv.fields[f].ft = "signature"
          /\ Placed(conv.fields[f]) )
        => LET rect == conv.fields[f].rect
               min == MinimumSizeOf(conv.tabs[j])
           IN  /\ Leq(NumV(min[1]), Sub(rect.urx, rect.llx))
               /\ Leq(NumV(min[2]), Sub(rect.ury, rect.lly))


\* The merge phase is over: the tabs are being processed, or were.
MergePhaseOver == conv.pc \in {"tabs", "done", "failed"} /\ conv.pageMapping # <<>>

\* The page-mapping table has one entry per loaded document, in document
\* order, and its entries partition the page indices of the merged document.
PageMappingPartitions ==
    LET table == conv.pageMapping
    IN  /\ Len(table) = Len(LoadedDocuments)
        /\ \A k \in 1..Len(table) :
              /\ table[k].docId = LoadedDocuments[k].documentId
              /\ table[k].endPage - table[k].startPage + 1
                    = LoadedDocuments[k].pdf.pageCount
              /\ table[k].totalPages = LoadedDocuments[k].pdf.pageCount
              /\ k > 1 => table[k].startPage = table[k - 1].endPage + 1
        /\ table[1].startPage = 0
        /\ table[Len(table)].endPage + 1 = Len(conv.pages)

\* C27: after the merge phase the page-mapping table has one entry per loaded
\* document, in document order, and the entries partition the merged page
\* indices: the first startPage is 0, each next startPage is the previous
\* endPage + 1, endPage - startPage + 1 is the page count of the document and
\* the last endPage + 1 is the merged page count; no step that processes a
\* tab changes the table.
C27_PageMappingPartition ==
    /\ [](MergePhaseOver => PageMappingPartitions)
    /\ [][conv.pc = "tabs" => conv'.pageMapping = conv.pageMapping]_vars

\* C27 witness: a two-page and a one-page document were merged around a
\* document without data; the table is <<0..1, 2..2>> after the tabs.
C27_Witness ==
    /\ conv.pc = "done"
    /\ Len(conv.log) > 0
    /\ conv.templateData.documents = <<DocOne, DocNoData, DocFour>>
    /\ conv.pageMapping =
          <<[docId |-> StrV(<<"1">>), startPage |-> 0, endPage |-> 1, totalPages |-> 2],
            [docId |-> StrV(<<"4">>), startPage |-> 2, endPage |-> 2, totalPages |-> 1]>>
    /\ Len(conv.pages) = 3


\* The tab's documentId denotes a loaded document: the two ids are the same
\* number or string, or one is the number the other spells.
DenotesLoadedDocument(tab) ==
    /\ tab.documentId.t \in {"number", "string"}
    /\ \E d \in 1..Len(LoadedDocuments) :
          JsString(LoadedDocuments[d].documentId) = JsString(tab.documentId)

\* C28: a tab whose documentId denotes a loaded document is matched to the
\* page mapping of that document whether the ids are numbers or strings
\* (document 1 and tab "1", or the reverse); such a tab is not dropped as
\* unmappable.
C28_NumberOrStringDocumentId ==
    \A j \in 1..Len(conv.log) :
        DenotesLoadedDocument(conv.tabs[j]) => conv.log[j] # "noPageMapping"


\* The tab loop has been entered: the tab records were collected.
TabsCollected == conv.pc \in {"tabs", "done"} \/ (conv.pc = "failed" /\ conv.log # <<>>)

-----------------------------------------------------------------------------
(* js/field-translators.js: the registry functions and the translators *)

S_FULL_NAME  == <<"[", "F", "U", "L", "L", " ", "N", "A", "M", "E", "]">>
S_COMPANY    == <<"[", "C", "O", "M", "P", "A", "N", "Y", "]">>
S_TITLE      == <<"[", "T", "I", "T", "L", "E", "]">>
S_EMAIL      == <<"[", "E", "M", "A", "I", "L", "]">>
S_NUMBER     == <<"[", "N", "U", "M", "B", "E", "R", "]">>
S_Attachment == <<"A", "t", "t", "a", "c", "h", "m", "e", "n", "t">>
S_FileNameDescription ==
    <<"[", "F", "i", "l", "e", " ", "N", "a", "m", "e", "/">> \o
    <<"D", "e", "s", "c", "r", "i", "p", "t", "i", "o", "n", "]">>
S_AttachmentFileName ==
    <<"[", "A", "t", "t", "a", "c", "h", "m", "e", "n", "t", " ">> \o
    <<"F", "i", "l", "e", " ", "N", "a", "m", "e", "]">>
S_lox     == <<"l", "o", "x">>
S_upload  == <<"u", "p", "l", "o", "a", "d">>
S_loe     == <<"l", "o", "e">>
S_cel     == <<"c", "e", "l">>
S_udn     == <<"u", "d", "n">>
S_option_ == <<"o", "p", "t", "i", "o", "n", "_">>
S_true    == <<"t", "r", "u", "e">>
S_false   == <<"f", "a", "l", "s", "e">>
S_undefined == <<"u", "n", "d", "e", "f", "i", "n", "e", "d">>
S_null    == <<"n", "u", "l", "l">>
S_initials == <<"i", "n", "i", "t", "i", "a", "l", "s">>

\* a && b
And(a, b) == IF Truthy(a) THEN b ELSE a

\* Array.isArray(v)
IsArray(v) == BoolV(v.t = "array")

\* The translator each entry of FIELD_TRANSLATORS names.
TranslatorOf(fieldType) ==
    CASE fieldType = "textTabs"             -> "translateTextField"
      [] fieldType = "signHereTabs"         -> "translateSignatureField"
      [] fieldType = "initialHereTabs"      -> "translateInitialsField"
      [] fieldType = "stampTabs"            -> "translateStampField"
      [] fieldType = "checkboxTabs"         -> "translateCheckboxField"
      [] fieldType = "radioGroupTabs"       -> "translateRadioGroupField"
      [] fieldType = "listTabs"             -> "translateListField"
      [] fieldType = "fullNameTabs"         -> "translateFullNameField"
      [] fieldType = "dateSignedTabs"       -> "translateDateSignedField"
      [] fieldType = "companyTabs"          -> "translateCompanyField"
      [] fieldType = "titleTabs"            -> "translateTitleField"
      [] fieldType = "emailAddressTabs"     -> "translateEmailField"
      [] fieldType = "numericalTabs"        -> "translateNumericalField"
      [] fieldType = "signerAttachmentTabs" -> "translateSignerAttachmentField"

\* FIELD_TRANSLATORS[fieldType]: the entry of a registered kind, an object
\* inherited from Object.prototype (it names no translator), or undefined.
Entry(registry, fieldType) ==
    IF fieldType \in Kinds
    THEN [t |-> "object", enabled |-> registry.own[fieldType],
          translator |-> TranslatorOf(fieldType)]
    ELSE IF fieldType \in InheritedKeys
    THEN [t |-> "object", enabled |-> registry.proto[fieldType],
          translator |-> "undefined"]
    ELSE [t |-> "undefined", enabled |-> Undefined, translator |-> "undefined"]

\* setFieldTypeEnabled: the registry afterwards and the value returned.
SetFieldTypeEnabled(registry, fieldType, enabled) ==
    IF Entry(registry, fieldType).t = "undefined"
    THEN [registry |-> registry, result |-> BoolV(FALSE)]
    ELSE IF fieldType \in Kinds
    THEN [registry |-> [registry EXCEPT !.own[fieldType] = enabled],
          result |-> BoolV(TRUE)]
    ELSE [registry |-> [registry EXCEPT !.proto[fieldType] = enabled],
          result |-> BoolV(TRUE)]

\* resetAllFieldTypes: every own key of FIELD_TRANSLATORS is enabled.
ResetAllFieldTypes(registry) ==
    [registry |-> [registry EXCEPT !.own = [k \in Kinds |-> BoolV(TRUE)]],
     result |-> BoolV(TRUE)]

\* getFieldTypeStates: the enabled value of every own key.
GetFieldTypeStates(registry) == [k \in Kinds |-> registry.own[k]]

\* validateFieldData: the value returned (the switch returns the operand of
\* && and || that decided, not always a boolean).
ValidateFieldData(fieldData, fieldType) ==
    IF fieldData.t # "object" THEN BoolV(FALSE)
    ELSE IF \E v \in {fieldData.pageNumber, fieldData.xPosition, fieldData.yPosition} :
                v.t \in {"undefined", "null"}
    THEN BoolV(FALSE)
    ELSE CASE fieldType = "textTabs" -> BoolV(TRUE)
           [] fieldType \in {"signHereTabs", "initialHereTabs"} ->
                Or(fieldData.name, fieldData.tabLabel)
           [] fieldType = "checkboxTabs" -> BoolV(TRUE)
           [] fieldType = "radioGroupTabs" ->
                And(And(fieldData.groupName, fieldData.radios), IsArray(fieldData.radios))
           [] fieldType = "listTabs" ->
                And(fieldData.listItems, IsArray(fieldData.listItems))
           [] OTHER -> BoolV(TRUE)

\* The marker of a call that threw.
Thrown == [t |-> "thrown", n |-> 0, s |-> <<>>]

FieldNameLimit == 60

\* [a-zA-Z0-9_-]
IsNameChar(c) ==
    \/ IsDigit(c)
    \/ c \in {"_", "-"}
    \/ \E i \in 1..Len(UpperChars) : c = UpperChars[i] \/ c = LowerChars[i]

\* name.replace without the g flag: only the first match is replaced.
CleanNameFirstOnly(s) ==
    [i \in 1..Len(s) |->
        IF ~IsNameChar(s[i]) /\ (\A j \in 1..(i - 1) : IsNameChar(s[j]))
        THEN "_" ELSE s[i]]

\* name.replace(/[^a-zA-Z0-9_-]/g, '_')
CleanName(s) == [i \in 1..Len(s) |-> IF IsNameChar(s[i]) THEN s[i] ELSE "_"]

\* s.substring(0, n)
Substring0(s, n) == SubSeq(s, 1, IF Len(s) < n THEN Len(s) ELSE n)

\* generateFieldName; env.timestamp is what Date.now() prints and env.random
\* the five characters drawn from Math.random().  name.replace throws when
\* the name is not a string.
GenerateFieldName(fieldData, env) ==
    LET name == Or(Or(fieldData.name, fieldData.tabLabel),
                   StrV(S_Field \o <<"_">> \o env.timestamp))
    IN  IF name.t # "string" THEN Thrown
        ELSE StrV(Substring0(CleanName(name.s) \o <<"_">> \o env.timestamp
                                \o <<"_">> \o env.random, FieldNameLimit))

\* What a translator leaves: the fields of the document and the value it
\* returns.
Outcome(fields, result) == [fields |-> fields, result |-> result]

\* The body the text translators share: createTextField(fieldName), setText
\* when `sets`, addToPage.  setText takes a string only.
TranslateAsText(fieldData, fields, coords, text, sets, env) ==
    LET fieldName == GenerateFieldName(fieldData, env)
    IN  IF fieldName.t = "thrown" \/ env.form = "createThrows"
        THEN Outcome(fields, FALSE)
        ELSE IF sets /\ text.t # "string"
        THEN Outcome(Append(fields, Field(fieldName.s, "text", 0, Null, Undefined)), FALSE)
        ELSE IF env.form = "addThrows"
        THEN Outcome(Append(fields, Field(fieldName.s, "text", 0, Null,
                                          IF sets THEN text ELSE Undefined)), FALSE)
        ELSE Outcome(Append(fields, Field(fieldName.s, "text", 0, Widget(coords),
                                          IF sets THEN text ELSE Undefined)), TRUE)

\* translateTextField: the text is set only when it is truthy.
TranslateTextField(fieldData, fields, coords, options, env) ==
    LET defaultValue == Or(Or(fieldData.value, options.defaultValue), StrV(<<>>))
    IN  TranslateAsText(fieldData, fields, coords, defaultValue, Truthy(defaultValue), env)

TranslateFullNameField(fieldData, fields, coords, options, env) ==
    TranslateAsText(fieldData, fields, coords, Or(fieldData.value, StrV(S_FULL_NAME)),
                    TRUE, env)

\* translateDateSignedField: env.today is new Date().toLocaleDateString().
TranslateDateSignedField(fieldData, fields, coords, options, env) ==
    TranslateAsText(fieldData, fields, coords, StrV(env.today), TRUE, env)

TranslateCompanyField(fieldData, fields, coords, options, env) ==
    TranslateAsText(fieldData, fields, coords, Or(fieldData.value, StrV(S_COMPANY)),
                    TRUE, env)

TranslateTitleField(fieldData, fields, coords, options, env) ==
    TranslateAsText(fieldData, fields, coords, Or(fieldData.value, StrV(S_TITLE)),
                    TRUE, env)

TranslateEmailField(fieldData, fields, coords, options, env) ==
    TranslateAsText(fieldData, fields, coords, Or(fieldData.value, StrV(S_EMAIL)),
                    TRUE, env)

TranslateNumericalField(fieldData, fields, coords, options, env) ==
    TranslateAsText(fieldData, fields, coords, Or(fieldData.value, StrV(S_NUMBER)),
                    TRUE, env)

\* translateSignerAttachmentField: attachmentName.toLowerCase throws when the
\* label is not a string (as generateFieldName did before it).
TranslateSignerAttachmentField(fieldData, fields, coords, options, env) ==
    LET attachmentName == Or(Or(fieldData.tabLabel, fieldData.name), StrV(S_Attachment))
        lower == ToLowerCase(attachmentName.s)
        placeholderText ==
            IF \E w \in {S_lox, S_upload, S_loe, S_cel, S_udn} : Includes(lower, w)
            THEN S_FileNameDescription ELSE S_AttachmentFileName
    IN  IF attachmentName.t # "string" THEN Outcome(fields, FALSE)
        ELSE TranslateAsText(fieldData, fields, coords, StrV(placeholderText), TRUE, env)

\* translateSignatureField: converter.js createSignatureField, reached through
\* window, gets the string 'signature' for options.
TranslateSignatureField(fieldData, fields, coords, options, env) ==
    LET fieldName == GenerateFieldName(fieldData, env)
        attempt == CreateSignatureField(fields, 0, fieldName.s, coords,
                                        StrV(S_signature), env.sigOk, env.form)
    IN  IF fieldName.t = "thrown" \/ ~env.hasCreateSignatureField
        THEN Outcome(fields, FALSE)
        ELSE Outcome(attempt.fields, ~attempt.threw)

\* translateStampField: no typeof test, the call of an undefined
\* window.createSignatureField throws and the catch returns false.
TranslateStampField(fieldData, fields, coords, options, env) ==
    LET fieldName == GenerateFieldName(fieldData, env)
        attempt == CreateSignatureField(fields, 0, fieldName.s, coords,
                                        StrV(S_signature), env.sigOk, env.form)
    IN  IF fieldName.t = "thrown" \/ ~env.hasCreateSignatureField
        THEN Outcome(fields, FALSE)
        ELSE Outcome(attempt.fields, ~attempt.threw)

TranslateInitialsField(fieldData, fields, coords, options, env) ==
    LET fieldName == GenerateFieldName(fieldData, env)
        attempt == CreateSignatureField(fields, 0, fieldName.s, coords,
                                        StrV(S_initials), env.sigOk, env.form)
    IN  IF fieldName.t = "thrown" \/ ~env.hasCreateSignatureField
        THEN Outcome(fields, FALSE)
        ELSE Outcome(attempt.fields, ~attempt.threw)

\* v === true || v === 'true'
IsSelected(v) == v = BoolV(TRUE) \/ v = StrV(S_true)

\* translateCheckboxField
TranslateCheckboxField(fieldData, fields, coords, options, env) ==
    LET fieldName == GenerateFieldName(fieldData, env)
        isChecked == IsSelected(fieldData.selected)
    IN  IF fieldName.t = "thrown" \/ env.form = "createThrows"
        THEN Outcome(fields, FALSE)
        ELSE IF env.form = "addThrows"
        THEN Outcome(Append(fields, Field(fieldName.s, "checkbox", 0, Null,
                                          BoolV(isChecked))), FALSE)
        ELSE Outcome(Append(fields, Field(fieldName.s, "checkbox", 0, Widget(coords),
                                          BoolV(isChecked))), TRUE)

\* String(v) of a string, an integer or a boolean.
StringOf(v) ==
    CASE v.t = "number"  -> StrV(NumberToString(v.n))
      [] v.t = "boolean" -> StrV(IF v.n = 1 THEN S_true ELSE S_false)
      [] OTHER           -> v

\* The value of the option without the test for "undefined" and "null".
RadioValueNoNameTest(radio, i) ==
    LET fallback == StrV(S_option_ \o NumberToString(i))
        given == Or(Or(radio.value, radio.text), fallback)
        radioValue == IF given.t # "string" THEN StringOf(given) ELSE given
    IN  IF ~Truthy(radioValue) THEN fallback ELSE radioValue

\* translateRadioGroupField, lines 479-486: the value of the option at index i.
RadioValue(radio, i) ==
    LET fallback == StrV(S_option_ \o NumberToString(i))
        given == Or(Or(radio.value, radio.text), fallback)
        radioValue == IF given.t # "string" THEN StringOf(given) ELSE given
    IN  IF ~Truthy(radioValue) \/ radioValue.s = S_undefined \/ radioValue.s = S_null
        THEN fallback ELSE radioValue

\* The rectangle of one radio: convertDocuSignCoordinates of the file the
\* translator stands in.
RadioCoords(radio, pageSize, legacy) ==
    IF legacy THEN LegacyConvertDocuSignCoordinates(radio, pageSize)
    ELSE ConvertDocuSignCoordinates(radio, pageSize, "radioGroupTabs")

\* The options added to the group, in the order of the radios.
RadioOptions(radios, pageSize, legacy) ==
    [i \in 1..Len(radios) |->
        [value |-> RadioValue(radios[i], i - 1),
         rect |-> Widget(RadioCoords(radios[i], pageSize, legacy))]]

\* The value of the last radio or list item marked selected (undefined when
\* none is): each select() replaces the selection.
RECURSIVE LastSelected(_, _)
LastSelected(items, values) ==
    IF items = <<>> THEN Undefined
    ELSE IF IsSelected(items[Len(items)].selected) THEN values[Len(items)]
    ELSE LastSelected(SubSeq(items, 1, Len(items) - 1), values)

\* translateRadioGroupField without the test of radios.length.
TranslateRadioGroupFieldNoLengthTest(fieldData, fields, pageSize, options, env, legacy) ==
    LET groupName == fieldData.groupName
        radios == IF Truthy(fieldData.radios) THEN fieldData.radios.items ELSE <<>>
        added == RadioOptions(radios, pageSize, legacy)
        values == [i \in 1..Len(radios) |-> added[i].value]
    IN  IF groupName.t # "string" \/ env.form = "createThrows"
        THEN Outcome(fields, FALSE)
        ELSE IF env.form = "addThrows" /\ Len(radios) > 0
        THEN Outcome(Append(fields, ChoiceField(groupName.s, "radio", 0, Null,
                                                Undefined, <<>>)), FALSE)
        ELSE Outcome(Append(fields, ChoiceField(groupName.s, "radio", 0, Null,
                                                LastSelected(radios, values), added)),
                     TRUE)

\* translateRadioGroupField placing every option at the rectangle of the
\* group tab (the coords argument) instead of the radio's own.
TranslateRadioGroupFieldAtGroupRectangle(fieldData, fields, pageSize, options, env, legacy) ==
    LET groupName == fieldData.groupName
        radios == IF Truthy(fieldData.radios) THEN fieldData.radios.items ELSE <<>>
        coords == IF legacy THEN LegacyConvertDocuSignCoordinates(fieldData, pageSize)
                  ELSE TranslateFieldCoords("radioGroupTabs", fieldData, pageSize, options)
        added == [i \in 1..Len(radios) |->
                    [value |-> RadioValue(radios[i], i - 1), rect |-> Widget(coords)]]
        values == [i \in 1..Len(radios) |-> added[i].value]
    IN  IF Len(radios) = 0 THEN Outcome(fields, FALSE)
        ELSE IF groupName.t # "string" \/ env.form = "createThrows"
        THEN Outcome(fields, FALSE)
        ELSE IF env.form = "addThrows"
        THEN Outcome(Append(fields, ChoiceField(groupName.s, "radio", 0, Null,
                                                Undefined, <<>>)), FALSE)
        ELSE Outcome(Append(fields, ChoiceField(groupName.s, "radio", 0, Null,
                                                LastSelected(radios, values), added)),
                     TRUE)

\* translateRadioGroupField.  validateFieldData lets fieldData.radios through
\* only when it is an array; createRadioGroup takes a string for the name.
TranslateRadioGroupField(fieldData, fields, pageSize, options, env, legacy) ==
    LET groupName == fieldData.groupName
        radios == IF Truthy(fieldData.radios) THEN fieldData.radios.items ELSE <<>>
        added == RadioOptions(radios, pageSize, legacy)
        values == [i \in 1..Len(radios) |-> added[i].value]
    IN  IF Len(radios) = 0 THEN Outcome(fields, FALSE)
        ELSE IF groupName.t # "string" \/ env.form = "createThrows"
        THEN Outcome(fields, FALSE)
        ELSE IF env.form = "addThrows"
        THEN Outcome(Append(fields, ChoiceField(groupName.s, "radio", 0, Null,
                                                Undefined, <<>>)), FALSE)
        ELSE Outcome(Append(fields, ChoiceField(groupName.s, "radio", 0, Null,
                                                LastSelected(radios, values), added)),
                     TRUE)

\* translateListField selecting the tab's value before the items are added:
\* an item marked selected then replaces it.
TranslateListFieldValueFirst(fieldData, fields, coords, options, env) ==
    LET fieldName == GenerateFieldName(fieldData, env)
        listItems == IF Truthy(fieldData.listItems) THEN fieldData.listItems.items
                     ELSE <<>>
        added == [i \in 1..Len(listItems) |->
                    [label |-> listItems[i].text, value |-> listItems[i].value]]
        values == [i \in 1..Len(listItems) |-> listItems[i].value]
        selection == IF LastSelected(listItems, values) # Undefined
                     THEN LastSelected(listItems, values)
                     ELSE IF Truthy(fieldData.value) THEN fieldData.value
                     ELSE Undefined
    IN  IF fieldName.t = "thrown" THEN Outcome(fields, FALSE)
        ELSE IF Len(listItems) = 0 THEN Outcome(fields, FALSE)
        ELSE IF env.form = "createThrows" THEN Outcome(fields, FALSE)
        ELSE IF env.form = "addThrows"
        THEN Outcome(Append(fields, ChoiceField(fieldName.s, "dropdown", 0, Null,
                                                selection, added)), FALSE)
        ELSE Outcome(Append(fields, ChoiceField(fieldName.s, "dropdown", 0,
                                                Widget(coords), selection, added)), TRUE)

\* translateListField.  validateFieldData lets fieldData.listItems through
\* only when it is an array.
TranslateListField(fieldData, fields, coords, options, env) ==
    LET fieldName == GenerateFieldName(fieldData, env)
        listItems == IF Truthy(fieldData.listItems) THEN fieldData.listItems.items
                     ELSE <<>>
        added == [i \in 1..Len(listItems) |->
                    [label |-> listItems[i].text, value |-> listItems[i].value]]
        values == [i \in 1..Len(listItems) |-> listItems[i].value]
        selection == IF Truthy(fieldData.value) THEN fieldData.value
                     ELSE LastSelected(listItems, values)
    IN  IF fieldName.t = "thrown" THEN Outcome(fields, FALSE)
        ELSE IF Len(listItems) = 0 THEN Outcome(fields, FALSE)
        ELSE IF env.form = "createThrows" THEN Outcome(fields, FALSE)
        ELSE IF env.form = "addThrows"
        THEN Outcome(Append(fields, ChoiceField(fieldName.s, "dropdown", 0, Null,
                                                selection, added)), FALSE)
        ELSE Outcome(Append(fields, ChoiceField(fieldName.s, "dropdown", 0,
                                                Widget(coords), selection, added)), TRUE)

OptimizedMinSignatureWidth  == 150
OptimizedMinSignatureHeight == 40
OptimizedMinInitialsWidth   == 100
OptimizedMinInitialsHeight  == 25

\* unnamed/part_000 createOptimizedSignatureField: the signature widget is
\* written into the form and the page by hand; whatever throws on the way
\* (env.optimizedOk false: before the field reaches the form) is caught and
\* false is returned.
CreateOptimizedSignatureField(fields, name, rect, fieldType, env) ==
    LET isInitials == fieldType = S_initials
        cleanName == Substring0(CleanName(name) \o <<"_">> \o env.timestamp
                                   \o <<"_">> \o env.random, FieldNameLimit)
        minWidth == IF isInitials THEN OptimizedMinInitialsWidth
                    ELSE OptimizedMinSignatureWidth
        minHeight == IF isInitials THEN OptimizedMinInitialsHeight
                     ELSE OptimizedMinSignatureHeight
        width == MathMax(Sub(rect.urx, rect.llx), NumV(minWidth))
        height == MathMax(Sub(rect.ury, rect.lly), NumV(minHeight))
        fieldRect == Rect(rect.llx, rect.lly, Add(rect.llx, width), Add(rect.lly, height))
    IN  IF env.optimizedOk
        THEN Outcome(Append(fields, Field(cleanName, "signature", 0, fieldRect,
                                          Undefined)), TRUE)
        ELSE Outcome(fields, FALSE)

\* unnamed/part_000 translateSignatureField: the value createOptimizedSignatureField
\* returns is not looked at.
LegacyTranslateSignatureField(fieldData, fields, coords, options, env) ==
    LET fieldName == GenerateFieldName(fieldData, env)
    IN  IF fieldName.t = "thrown" THEN Outcome(fields, FALSE)
        ELSE Outcome(CreateOptimizedSignatureField(fields, fieldName.s, coords,
                                                   S_signature, env).fields, TRUE)

\* unnamed/part_000 translateInitialsField
LegacyTranslateInitialsField(fieldData, fields, coords, options, env) ==
    LET fieldName == GenerateFieldName(fieldData, env)
    IN  IF fieldName.t = "thrown" THEN Outcome(fields, FALSE)
        ELSE Outcome(CreateOptimizedSignatureField(fields, fieldName.s, coords,
                                                   S_initials, env).fields, TRUE)

\* translatorConfig.translator(fieldData, pdfDoc, page, pdfCoords, options);
\* legacy: the translators of unnamed/part_000.  An inherited object has no
\* translator: the call throws and translateField's catch returns false.
CallTranslator(translator, fieldData, fields, pageSize, coords, options, env, legacy) ==
    CASE translator = "translateTextField" ->
            TranslateTextField(fieldData, fields, coords, options, env)
      [] translator = "translateSignatureField" ->
            IF legacy
            THEN LegacyTranslateSignatureField(fieldData, fields, coords, options, env)
            ELSE TranslateSignatureField(fieldData, fields, coords, options, env)
      [] translator = "translateInitialsField" ->
            IF legacy
            THEN LegacyTranslateInitialsField(fieldData, fields, coords, options, env)
            ELSE TranslateInitialsField(fieldData, fields, coords, options, env)
      [] translator = "translateStampField" ->
            TranslateStampField(fieldData, fields, coords, options, env)
      [] translator = "translateCheckboxField" ->
            TranslateCheckboxField(fieldData, fields, coords, options, env)
      [] translator = "translateRadioGroupField" ->
            TranslateRadioGroupField(fieldData, fields, pageSize, options, env, legacy)
      [] translator = "translateListField" ->
            TranslateListField(fieldData, fields, coords, options, env)
      [] translator = "translateFullNameField" ->
            TranslateFullNameField(fieldData, fields, coords, options, env)
      [] translator = "translateDateSignedField" ->
            TranslateDateSignedField(fieldData, fields, coords, options, env)
      [] translator = "translateCompanyField" ->
            TranslateCompanyField(fieldData, fields, coords, options, env)
      [] translator = "translateTitleField" ->
            TranslateTitleField(fieldData, fields, coords, options, env)
      [] translator = "translateEmailField" ->
            TranslateEmailField(fieldData, fields, coords, options, env)
      [] translator = "translateNumericalField" ->
            TranslateNumericalField(fieldData, fields, coords, options, env)
      [] translator = "translateSignerAttachmentField" ->
            TranslateSignerAttachmentField(fieldData, fields, coords, options, env)
      [] OTHER -> Outcome(fields, FALSE)

\* js/field-translators.js translateField: the fields of pdfDoc afterwards
\* and the value returned.
TranslateField(fieldType, fieldData, fields, pageSize, options, registry, env) ==
    LET translatorConfig == Entry(registry, fieldType)
        pdfCoords == TranslateFieldCoords(fieldType, fieldData, pageSize, options)
    IN  IF translatorConfig.t = "undefined" THEN Outcome(fields, FALSE)
        ELSE IF ~Truthy(translatorConfig.enabled) THEN Outcome(fields, FALSE)
        ELSE IF ~Truthy(ValidateFieldData(fieldData, fieldType))
        THEN Outcome(fields, FALSE)
        ELSE CallTranslator(translatorConfig.translator, fieldData, fields, pageSize,
                            pdfCoords, options, env, FALSE)

\* The registry of unnamed/part_000 has no stampTabs entry.
LegacyEntry(registry, fieldType) ==
    IF fieldType = "stampTabs"
    THEN [t |-> "undefined", enabled |-> Undefined, translator |-> "undefined"]
    ELSE Entry(registry, fieldType)

\* unnamed/part_000 translateField
LegacyTranslateField(fieldType, fieldData, fields, pageSize, options, registry, env) ==
    LET translatorConfig == LegacyEntry(registry, fieldType)
        pdfCoords == LegacyConvertDocuSignCoordinates(fieldData, pageSize)
    IN  IF translatorConfig.t = "undefined" THEN Outcome(fields, FALSE)
        ELSE IF ~Truthy(translatorConfig.enabled) THEN Outcome(fields, FALSE)
        ELSE IF ~Truthy(ValidateFieldData(fieldData, fieldType))
        THEN Outcome(fields, FALSE)
        ELSE CallTranslator(translatorConfig.translator, fieldData, fields, pageSize,
                            pdfCoords, options, env, TRUE)

-----------------------------------------------------------------------------
(* Spec: the registry calls and one translateField request *)

MaxItems == 2

S_Sig       == <<"S", "i", "g">>
S_Full_Name == <<"F", "u", "l", "l", " ", "N", "a", "m", "e">>
S_Existing  == <<"E", "x", "i", "s", "t", "i", "n", "g">>
S_G         == <<"G">>
S_a         == <<"a">>
S_b         == <<"b">>
S_X         == <<"X">>

\* What the clock, Math.random and the locale gave during the call.
SampleTimestamp == <<"1", "7", "0">>
SampleRandom    == <<"k", "3", "x", "9", "q">>
SampleToday     == <<"1", "/", "2", "/", "2", "0", "2", "5">>

\* The environment of a call: what the pdf-lib form does, whether
\* form.createSignatureField works, whether window.createSignatureField is a
\* function, whether createOptimizedSignatureField gets through.
Env(form, sigOk, hasCreateSignatureField, optimizedOk) ==
    [form |-> form, sigOk |-> sigOk,
     hasCreateSignatureField |-> hasCreateSignatureField,
     optimizedOk |-> optimizedOk,
     timestamp |-> SampleTimestamp, random |-> SampleRandom, today |-> SampleToday]

SignatureKinds == {"signHereTabs", "initialHereTabs", "stampTabs"}

Envs(fieldType) ==
    {Env(form, TRUE, TRUE, TRUE) : form \in FormOutcomes}
    \cup (IF fieldType \in SignatureKinds
          THEN {Env(form, FALSE, TRUE, TRUE) : form \in FormOutcomes}
               \cup {Env("ok", TRUE, FALSE, TRUE), Env("ok", TRUE, TRUE, FALSE)}
          ELSE {})

\* A tab with the three required properties and a size.
BaseTab ==
    [EmptyTab EXCEPT !.pageNumber = StrV(<<"1">>), !.xPosition = NumV(10),
                     !.yPosition = NumV(20), !.width = NumV(100), !.height = NumV(15)]

LabelledTab == [BaseTab EXCEPT !.tabLabel = StrV(S_Full_Name)]

CommonTabs ==
    {BaseTab, LabelledTab, Null,
     [BaseTab EXCEPT !.name = StrV(S_Sig)],
     [BaseTab EXCEPT !.name = StrV(<<>>), !.tabLabel = StrV(<<>>)],
     [BaseTab EXCEPT !.name = NumV(7)],
     [LabelledTab EXCEPT !.xPosition = Undefined],
     [LabelledTab EXCEPT !.yPosition = Null],
     [LabelledTab EXCEPT !.pageNumber = Undefined],
     [LabelledTab EXCEPT !.value = StrV(S_X), !.selected = BoolV(TRUE)]}

RadioA == [EmptyTab EXCEPT !.xPosition = NumV(10), !.yPosition = NumV(20),
                           !.width = NumV(12), !.height = NumV(12),
                           !.value = StrV(S_a)]
RadioB == [EmptyTab EXCEPT !.xPosition = NumV(10), !.yPosition = NumV(20),
                           !.selected = BoolV(TRUE)]
ItemA  == [EmptyTab EXCEPT !.text = StrV(S_a), !.value = StrV(S_a)]
ItemB  == [EmptyTab EXCEPT !.text = StrV(S_b), !.value = StrV(S_b),
                           !.selected = StrV(S_true)]

\* undefined, and every array of at most MaxItems of the given items.
ArraysOf(items) ==
    {Undefined} \cup
    {ArrayV(q) : q \in UNION {[1..n -> items] : n \in 0..MaxItems}}

RadioGroupTabs ==
    {[LabelledTab EXCEPT !.groupName = g, !.radios = r] :
        g \in {Undefined, StrV(<<>>), StrV(S_G)}, r \in ArraysOf({RadioA, RadioB})}

\* Radios by what they give for a value: nothing, a text only, the strings
\* "undefined" and "null", a number, zero.
ValueRadios ==
    {RadioB,
     [RadioA EXCEPT !.value = Undefined, !.text = StrV(S_b)],
     [RadioA EXCEPT !.value = StrV(S_undefined)],
     [RadioA EXCEPT !.value = StrV(S_null), !.text = StrV(S_b)],
     [RadioA EXCEPT !.value = NumV(5)],
     [RadioA EXCEPT !.value = NumV(0)]}

\* Groups whose tab and whose radios are at different places: the radios at
\* (10, 20) and at (30, 40), selected or not, 12 or 14 wide.
PlacedRadios ==
    {RadioA,
     [RadioA EXCEPT !.xPosition = NumV(30), !.yPosition = NumV(40)],
     [RadioA EXCEPT !.xPosition = NumV(30), !.yPosition = NumV(40),
                    !.selected = BoolV(TRUE), !.value = StrV(S_b)],
     [RadioA EXCEPT !.width = NumV(14), !.selected = BoolV(TRUE)]}

PlacedRadioTabs ==
    {[LabelledTab EXCEPT !.groupName = StrV(S_G), !.radios = ArrayV(<<r1, r2>>),
                         !.xPosition = NumV(x), !.yPosition = NumV(x + 10)] :
        r1 \in PlacedRadios, r2 \in PlacedRadios, x \in {10, 50}}

RadioValueTabs ==
    {[LabelledTab EXCEPT !.groupName = StrV(S_G), !.radios = ArrayV(<<r1, r2>>)] :
        r1 \in ValueRadios, r2 \in ValueRadios}

ListTabs ==
    {[LabelledTab EXCEPT !.listItems = l, !.value = v] :
        l \in ArraysOf({ItemA, ItemB}), v \in {Undefined, StrV(S_a)}}

\* Lists with an item marked by the boolean true, and tabs whose value is
\* the empty string or names no item.
ItemC == [EmptyTab EXCEPT !.text = StrV(<<"c">>), !.value = StrV(<<"c">>),
                          !.selected = BoolV(TRUE)]

SelectedItemTabs ==
    {[LabelledTab EXCEPT !.listItems = ArrayV(l), !.value = v] :
        l \in {<<ItemA, ItemC>>, <<ItemC, ItemB>>, <<ItemC, ItemA>>},
        v \in {Undefined, StrV(<<>>), StrV(S_a), StrV(S_X)}}

TabsOf(fieldType) ==
    CommonTabs \cup (IF fieldType = "radioGroupTabs"
                     THEN RadioGroupTabs \cup RadioValueTabs \cup PlacedRadioTabs
                     ELSE {})
               \cup (IF fieldType = "listTabs" THEN ListTabs \cup SelectedItemTabs ELSE {})

\* The kinds asked of the dispatcher and the registry: the registered ones, a
\* name Object.prototype has, a name nothing has.
RequestKinds == Kinds \cup InheritedKeys \cup {"unknownTabs"}

\* pdfDoc already holds one field.
ExistingFields ==
    <<Field(S_Existing, "text", 0, Rect(NumV(1), NumV(2), NumV(3), NumV(4)), Undefined)>>

Request(fieldType, fieldData, options, env) ==
    [fieldType |-> fieldType, fieldData |-> fieldData, fields |-> ExistingFields,
     pageSize |-> PageSizeOf(792), options |-> options, env |-> env]

Requests ==
    UNION {{Request(fieldType, fieldData, EmptyOptions, env) :
                fieldData \in TabsOf(fieldType), env \in Envs(fieldType)} :
           fieldType \in RequestKinds}

NoRequest == Request("textTabs", Null, EmptyOptions, Env("ok", TRUE, TRUE, TRUE))
NoCall == [op |-> "none"]

\* The names the registry is asked to switch.
ToggleNames ==
    {"textTabs", "unknownTabs"} \cup InheritedKeys
    \cup ({request.fieldType} \cap Kinds)

CallSetFieldTypeEnabled ==
    \E fieldType \in ToggleNames, enabled \in {BoolV(TRUE), BoolV(FALSE)} :
        LET r == SetFieldTypeEnabled(FIELD_TRANSLATORS, fieldType, enabled)
        IN  /\ FIELD_TRANSLATORS' = r.registry
            /\ requested' = IF fieldType \in Kinds
                            THEN [requested EXCEPT ![fieldType] = enabled]
                            ELSE requested
            /\ call' = [op |-> "setFieldTypeEnabled", fieldType |-> fieldType,
                        enabled |-> enabled, result |-> r.result,
                        before |-> FIELD_TRANSLATORS, after |-> r.registry]
            /\ UNCHANGED request

CallResetAllFieldTypes ==
    LET r == ResetAllFieldTypes(FIELD_TRANSLATORS)
    IN  /\ FIELD_TRANSLATORS' = r.registry
        /\ requested' = [k \in Kinds |-> BoolV(TRUE)]
        /\ call' = [op |-> "resetAllFieldTypes", result |-> r.result,
                    before |-> FIELD_TRANSLATORS, after |-> r.registry]
        /\ UNCHANGED request

CallGetFieldTypeStates ==
    /\ call' = [op |-> "getFieldTypeStates",
                result |-> GetFieldTypeStates(FIELD_TRANSLATORS)]
    /\ UNCHANGED <<FIELD_TRANSLATORS, requested, request>>

CallTranslateField ==
    LET out == TranslateField(request.fieldType, request.fieldData, request.fields,
                              request.pageSize, request.options, FIELD_TRANSLATORS,
                              request.env)
    IN  /\ call' = [op |-> "translateField", result |-> BoolV(out.result),
                    before |-> request.fields, after |-> out.fields]
        /\ UNCHANGED <<FIELD_TRANSLATORS, requested, request>>

CallLegacyTranslateField ==
    LET out == LegacyTranslateField(request.fieldType, request.fieldData,
                                    request.fields, request.pageSize, request.options,
                                    FIELD_TRANSLATORS, request.env)
    IN  /\ call' = [op |-> "legacyTranslateField", result |-> BoolV(out.result),
                    before |-> request.fields, after |-> out.fields]
        /\ UNCHANGED <<FIELD_TRANSLATORS, requested, request>>

-----------------------------------------------------------------------------
(* Spec: properties *)

\* The last call was a translateField call (of either file).
IsTranslateCall == call.op \in {"translateField", "legacyTranslateField"}

\* The kinds the called file registers.
RegisteredFor(op) ==
    IF op = "legacyTranslateField" THEN Kinds \ {"stampTabs"} ELSE Kinds

\* The call left the document as it was.
NothingAttached == call.after = call.before

\* The call added one field, with a widget on the page.
FieldAttached ==
    /\ Len(call.after) = Len(call.before) + 1
    /\ SubSeq(call.after, 1, Len(call.before)) = call.before
    /\ Placed(call.after[Len(call.after)])

\* C7: translateField returns true only if a field was attached to the page;
\* it returns false and attaches nothing when the kind is not registered, is
\* disabled in the registry, or the tab fails validation.
C7_TrueOnlyIfFieldAttached ==
    IsTranslateCall =>
        /\ call.result = BoolV(TRUE) => FieldAttached
        /\ (\/ request.fieldType \notin RegisteredFor(call.op)
            \/ /\ request.fieldType \in Kinds
               /\ requested[request.fieldType] = BoolV(FALSE)
            \/ ~Truthy(ValidateFieldData(request.fieldData, request.fieldType)))
           => call.result = BoolV(FALSE) /\ NothingAttached

\* The value is absent or an empty list.
EmptyOrAbsentList(v) == v = Undefined \/ (v.t = "array" /\ v.items = <<>>)

\* C8: for a radioGroup tab whose groupName is empty or absent or whose radios
\* are empty or absent, and for a list tab whose listItems are empty or
\* absent, translateField returns false and the document gets no field.
C8_EmptyGroupOrListRejected ==
    IsTranslateCall /\ request.fieldData.t = "object" =>
        /\ ( /\ request.fieldType = "radioGroupTabs"
             /\ \/ request.fieldData.groupName \in {Undefined, StrV(<<>>)}
                \/ EmptyOrAbsentList(request.fieldData.radios) )
           => call.result = BoolV(FALSE) /\ NothingAttached
        /\ ( /\ request.fieldType = "listTabs"
             /\ EmptyOrAbsentList(request.fieldData.listItems) )
           => call.result = BoolV(FALSE) /\ NothingAttached

\* C8 witness: an enabled radio group named "G" with an empty radios list
\* went through translateField, the form being in order.
C8_Witness ==
    /\ call.op = "translateField"
    /\ request.fieldType = "radioGroupTabs"
    /\ FIELD_TRANSLATORS.own["radioGroupTabs"] = BoolV(TRUE)
    /\ request.fieldData.t = "object"
    /\ request.fieldData.groupName = StrV(S_G)
    /\ request.fieldData.radios = ArrayV(<<>>)
    /\ request.env.form = "ok"
    /\ call.result = BoolV(FALSE)
    /\ NothingAttached

\* pageNumber, xPosition and yPosition are present.
HasRequiredProps(tab) ==
    \A v \in {tab.pageNumber, tab.xPosition, tab.yPosition} :
        v.t \notin {"undefined", "null"}

\* C9: translateField returns false for a signHere, initialHere or stamp tab
\* that has neither a non-empty name nor a non-empty tabLabel; validation
\* accepts a tab of every kind without a requirement of its own as soon as
\* pageNumber, xPosition and yPosition are present.
C9_SignatureKindsNeedNameOrLabel ==
    call.op = "translateField" /\ request.fieldData.t = "object" =>
        /\ ( /\ request.fieldType \in SignatureKinds
             /\ request.fieldData.name \in {Undefined, StrV(<<>>)}
             /\ request.fieldData.tabLabel \in {Undefined, StrV(<<>>)} )
           => call.result = BoolV(FALSE)
        /\ ( /\ request.fieldType \in
                    Kinds \ (SignatureKinds \cup {"radioGroupTabs", "listTabs"})
             /\ HasRequiredProps(request.fieldData) )
           => Truthy(ValidateFieldData(request.fieldData, request.fieldType))

\* C10: every kind starts enabled; getFieldTypeStates reports for every
\* registered kind the value last set since the last reset (true if none);
\* setFieldTypeEnabled on an unregistered kind returns false and changes
\* nothing.
C10_RegistryReportsLastRequest ==
    /\ \A k \in Kinds : GetFieldTypeStates(FIELD_TRANSLATORS)[k] = requested[k]
    /\ call.op = "getFieldTypeStates" => call.result = requested
    /\ call.op = "resetAllFieldTypes" =>
            \A k \in Kinds : call.after.own[k] = BoolV(TRUE)
    /\ call.op = "setFieldTypeEnabled" =>
            /\ \A k \in Kinds \ {call.fieldType} : call.after.own[k] = call.before.own[k]
            /\ call.fieldType \notin Kinds =>
                    call.result = BoolV(FALSE) /\ call.after = call.before

\* The signature constructor the call reaches fails while text fields can
\* still be created: form.createSignatureField is missing or throws in
\* js/converter.js, the hand-built widget of unnamed/part_000 throws.
SignatureConstructionFails ==
    IF call.op = "legacyTranslateField" THEN ~request.env.optimizedOk
    ELSE /\ request.env.hasCreateSignatureField
         /\ ~request.env.sigOk
         /\ request.env.form = "ok"

\* The rectangle translateField computes for the tab of the request.
RequestRectangle ==
    IF call.op = "legacyTranslateField"
    THEN LegacyConvertDocuSignCoordinates(request.fieldData, request.pageSize)
    ELSE TranslateFieldCoords(request.fieldType, request.fieldData, request.pageSize,
                              request.options)

\* C12: when the signature constructor fails for a signature, initials or
\* stamp tab that the dispatcher hands to its translator, one field is still
\* attached for the tab, at the tab's rectangle, with the text "[Signature]";
\* this for createSignatureField and for createOptimizedSignatureField.
C12_SignatureFallbackAttached ==
    ( /\ IsTranslateCall
      /\ request.fieldType \in SignatureKinds \cap RegisteredFor(call.op)
      /\ FIELD_TRANSLATORS.own[request.fieldType] = BoolV(TRUE)
      /\ request.fieldData.t = "object"
      /\ HasRequiredProps(request.fieldData)
      /\ Or(request.fieldData.name, request.fieldData.tabLabel).t = "string"
      /\ Or(request.fieldData.name, request.fieldData.tabLabel).s # <<>>
      /\ SignatureConstructionFails )
    => /\ FieldAttached
       /\ call.after[Len(call.after)].value = StrV(S_SignaturePlaceholder)
       /\ call.after[Len(call.after)].rect = Widget(RequestRectangle)

\* A translateField call on a radio group created the group with its options.
RadioGroupCreated ==
    /\ IsTranslateCall
    /\ request.fieldType = "radioGroupTabs"
    /\ call.result = BoolV(TRUE)
    /\ FieldAttached

\* The options of the group the call created, and the radios they come from.
CreatedOptions == call.after[Len(call.after)].items
GivenRadios == request.fieldData.radios.items

\* "option_<i>"
OptionName(i) == StrV(<<"o", "p", "t", "i", "o", "n", "_">> \o NumberToString(i))

\* C22 as stated: the option at index i has the value option_<i> when the
\* radio's value is missing or is the string "undefined" or "null", and the
\* radio's own value as a string otherwise.
C22_RadioValueOrOptionIndex ==
    RadioGroupCreated =>
        \A i \in 1..Len(GivenRadios) :
            CreatedOptions[i].value =
                IF GivenRadios[i].value \in {Undefined, Null, StrV(S_undefined), StrV(S_null)}
                THEN OptionName(i - 1)
                ELSE StringOf(GivenRadios[i].value)

\* What the radio offers for a value: its value, or its text when the value
\* is missing or falsy; undefined when both are.
OfferedValue(radio) ==
    IF Truthy(radio.value) THEN radio.value
    ELSE IF Truthy(radio.text) THEN radio.text
    ELSE Undefined

\* C22 amended: the option at index i has the value option_<i> when the radio
\* has neither a truthy value nor a truthy text, or when what it offers is the
\* string "undefined" or "null"; otherwise it has the radio's value, or its
\* text when the value is missing or falsy, as a string.
C22_RadioValueTextOrOptionIndex ==
    RadioGroupCreated =>
        \A i \in 1..Len(GivenRadios) :
            CreatedOptions[i].value =
                IF OfferedValue(GivenRadios[i]) \in {Undefined, StrV(S_undefined), StrV(S_null)}
                THEN OptionName(i - 1)
                ELSE StringOf(OfferedValue(GivenRadios[i]))

\* C22 witness: a group of a radio with the value "undefined" and a radio with
\* the value 5 got the options option_0 and "5".
C22_Witness ==
    /\ RadioGroupCreated
    /\ Len(GivenRadios) = 2
    /\ GivenRadios[1].value = StrV(S_undefined)
    /\ GivenRadios[2].value = NumV(5)
    /\ CreatedOptions[1].value = OptionName(0)
    /\ CreatedOptions[2].value = StrV(<<"5">>)

\* The position and size data of a radio.
OwnGeometry(radio) ==
    <<radio.xPosition, radio.xPositionString, radio.yPosition, radio.yPositionString,
      radio.width, radio.widthString, radio.height, radio.heightString, radio.tabType>>

\* C23: the rectangle of a radio option comes from the option's own position
\* and size and the page height alone: with x, y, width and height given as
\* numbers it is (x, H - y - height, x + width, H - y) in the current
\* translator, wherever the group tab is, and two options with the same position
\* and size data have the same rectangle whatever their values and whichever
\* is selected.
C23_RadioRectangleFromOwnData ==
    RadioGroupCreated =>
        /\ \A i, j \in 1..Len(GivenRadios) :
              OwnGeometry(GivenRadios[i]) = OwnGeometry(GivenRadios[j])
                  => CreatedOptions[i].rect = CreatedOptions[j].rect
        /\ call.op = "translateField" =>
              \A i \in 1..Len(GivenRadios) :
                  \A x \in {10, 30}, y \in {20, 40}, w \in {12, 14}, h \in {12} :
                      ( /\ GivenRadios[i].xPosition = NumV(x)
                        /\ GivenRadios[i].yPosition = NumV(y)
                        /\ GivenRadios[i].width = NumV(w)
                        /\ GivenRadios[i].height = NumV(h) )
                      => CreatedOptions[i].rect =
                            Rect(NumV(x), NumV(request.pageSize.height.n - y - h),
                                 NumV(x + w), NumV(request.pageSize.height.n - y))

\* C23 witness: a group tab at (50, 60) with a radio at (10, 20) and a
\* selected radio at (30, 40) has its two options at those two places.
C23_Witness ==
    /\ RadioGroupCreated
    /\ call.op = "translateField"
    /\ request.fieldData.xPosition = NumV(50)
    /\ Len(GivenRadios) = 2
    /\ GivenRadios[1].xPosition = NumV(10)
    /\ GivenRadios[2].xPosition = NumV(30)
    /\ GivenRadios[2].selected = BoolV(TRUE)
    /\ CreatedOptions[1].rect.llx = NumV(10)
    /\ CreatedOptions[2].rect.llx = NumV(30)
    /\ CreatedOptions[2].rect.ury = NumV(752)

\* A translateField call on a list tab created the dropdown.
DropdownCreated ==
    /\ IsTranslateCall
    /\ request.fieldType = "listTabs"
    /\ call.result = BoolV(TRUE)
    /\ FieldAttached

\* The list item is marked selected.
Marked(item) == item.selected \in {BoolV(TRUE), StrV(<<"t", "r", "u", "e">>)}

\* C24: the selection of the dropdown created for a list tab is the tab's own
\* value when the tab has one, whichever items are marked selected; without a
\* value it is the value of an item marked selected (true or "true"), and
\* there is none when no item is marked.
C24_ListSelection ==
    DropdownCreated =>
        LET selection == call.after[Len(call.after)].value
            items == request.fieldData.listItems.items
            value == request.fieldData.value
        IN  /\ value \notin {Undefined, StrV(<<>>)} => selection = value
            /\ value \in {Undefined, StrV(<<>>)} =>
                  /\ (\E i \in 1..Len(items) : Marked(items[i]))
                        => \E i \in 1..Len(items) :
                              Marked(items[i]) /\ selection = items[i].value
                  /\ (\A i \in 1..Len(items) : ~Marked(items[i]))
                        => selection = Undefined

\* C24 witness: a list tab with the value "a" and an item "c" marked selected
\* has the selection "a".
C24_Witness ==
    /\ DropdownCreated
    /\ request.fieldData.value = StrV(S_a)
    /\ \E i \in 1..Len(request.fieldData.listItems.items) :
          /\ request.fieldData.listItems.items[i].selected = BoolV(TRUE)
          /\ request.fieldData.listItems.items[i].value = StrV(<<"c">>)
    /\ call.after[Len(call.after)].value = StrV(S_a)


\* The text-family kinds, and the placeholder texts a field of each may carry.
TextFamily ==
    {"textTabs", "fullNameTabs", "dateSignedTabs", "companyTabs", "titleTabs",
     "emailAddressTabs", "numericalTabs", "signerAttachmentTabs"}

HasExplicitValue(tab) == tab.value.t = "string" /\ tab.value.s # <<>>

\* C25: for every text-family kind (text, fullName, dateSigned, company,
\* title, emailAddress, numerical, signerAttachment) the created text field
\* carries the tab's explicit value whenever the tab has one; the placeholder
\* of the kind is used only when the tab has no value.
C25_TextFamilyValueOrPlaceholder ==
    ( /\ IsTranslateCall
      /\ request.fieldType \in TextFamily
      /\ call.result = BoolV(TRUE)
      /\ FieldAttached
      /\ HasExplicitValue(request.fieldData) )
    => call.after[Len(call.after)].value = request.fieldData.value

-----------------------------------------------------------------------------
(* SpecName: generateFieldName called for the tabs of one conversion *)

\* By how many characters the longest label exceeds the name limit.
MaxExtra == 1

\* Date.now() of two successive milliseconds, as printed.
Timestamps ==
    {<<"1", "7", "6", "2", "3", "7", "2", "8", "0", "0", "1", "2", d>> : d \in {"3", "4"}}

\* Math.random().toString(36).substr(2, 5): up to five characters of 0-9a-z.
Randoms == {<<"k", "3", "x", "9", "q">>, <<"0", "z", "m", "4", "b">>, <<"8", "f">>}

NameEnvs == [timestamp : Timestamps, random : Randoms]

\* A label of n characters, some of them outside [a-zA-Z0-9_-].
LabelPattern == <<"D", "a", "t", "e", " ", "#", "1", "-", "x", "_", ".", "Z">>
LabelOfLength(n) == [i \in 1..n |-> LabelPattern[((i - 1) % Len(LabelPattern)) + 1]]

\* The lengths of the labels: short ones, those at which the suffix starts to
\* be cut (the name, "_", 13 digits, "_", 5 characters), and those around the
\* limit.
LabelLengths ==
    {4, 9, FieldNameLimit - 20, FieldNameLimit - 19, FieldNameLimit - 14}
    \cup ((FieldNameLimit - 1)..(FieldNameLimit + MaxExtra))

NameTabs ==
    {[BaseTab EXCEPT !.tabLabel = StrV(LabelOfLength(n))] : n \in LabelLengths}
    \cup {[BaseTab EXCEPT !.name = StrV(LabelOfLength(n))] : n \in {4, FieldNameLimit}}
    \cup {BaseTab,
          [BaseTab EXCEPT !.name = StrV(<<>>), !.tabLabel = StrV(S_Date)],
          [BaseTab EXCEPT !.name = StrV(S_Sig), !.tabLabel = StrV(S_Date)],
          [BaseTab EXCEPT !.name = NumV(7)]}

\* Two tabs of one conversion, and the clock and random values of their calls.
NameInputs == [tabs : [1..2 -> NameTabs], envs : [1..2 -> NameEnvs]]

NoNameIn == [tabs |-> <<>>, envs |-> <<>>]

\* The translator of the next tab calls generateFieldName.
CallGenerateFieldName ==
    /\ Len(nameOut) < Len(nameIn.tabs)
    /\ LET k == Len(nameOut) + 1
       IN  nameOut' = Append(nameOut, GenerateFieldName(nameIn.tabs[k], nameIn.envs[k]))
    /\ UNCHANGED nameIn

\* The characters of [A-Za-z0-9_-].
NameAlphabet ==
    {UpperChars[i] : i \in 1..26} \cup {LowerChars[i] : i \in 1..26}
    \cup {DigitChars[i] : i \in 1..10} \cup {"_", "-"}

\* The label generateFieldName starts from: the name, else the tabLabel.
LabelOf(tab) ==
    IF tab.name \notin {Undefined, StrV(<<>>)} THEN tab.name ELSE tab.tabLabel

\* C13: for a tab whose name/label is a string, generateFieldName returns a
\* string of at most 60 characters, all of them in [A-Za-z0-9_-], that starts
\* with the label in which every character outside that set is replaced by "_".
C13_NameCleanAndBounded ==
    \A k \in 1..Len(nameOut) :
        LET label == LabelOf(nameIn.tabs[k])
            out == nameOut[k]
        IN  label.t = "string" /\ label.s # <<>> =>
              /\ out.t = "string"
              /\ Len(out.s) <= 60
              /\ \A i \in 1..Len(out.s) : out.s[i] \in NameAlphabet
              /\ \A i \in 1..Len(out.s) :
                    i <= Len(label.s) =>
                        out.s[i] = IF label.s[i] \in NameAlphabet THEN label.s[i] ELSE "_"

\* C13 witness: a label longer than the limit, with characters to replace, was
\* turned into a name of exactly 60 characters.
C13_Witness ==
    /\ Len(nameOut) >= 1
    /\ nameIn.tabs[1].tabLabel.t = "string"
    /\ Len(nameIn.tabs[1].tabLabel.s) > 60
    /\ \E i \in 1..60 : nameIn.tabs[1].tabLabel.s[i] \notin NameAlphabet
    /\ nameOut[1].t = "string"
    /\ Len(nameOut[1].s) = 60

\* C14: two tabs of one conversion get distinct names, whatever their labels
\* (the same label included, of any length), as soon as the clock or the
\* random suffix differs between the two calls: the cut at 60 characters
\* never removes what tells the two names apart.
C14_DistinctNames ==
    ( /\ Len(nameOut) = 2
      /\ nameOut[1].t = "string" /\ nameOut[2].t = "string"
      /\ nameIn.envs[1].timestamp # nameIn.envs[2].timestamp
      /\ nameIn.envs[1].random # nameIn.envs[2].random )
    => nameOut[1] # nameOut[2]


-----------------------------------------------------------------------------
(* SpecRun: the translateField calls of one conversion, and another task *)

\* The number of tabs of the run.
MaxRunTabs == 2

\* A run translates tabs of one kind that pass validation and whose fields
\* the form takes: what translateField returns for them is the decision of
\* the registry.
RunTabs == {LabelledTab, [BaseTab EXCEPT !.name = StrV(S_Sig)]}

RunRequests ==
    {Request(fieldType, fieldData, EmptyOptions, Env("ok", TRUE, TRUE, TRUE)) :
        fieldType \in Kinds \ {"radioGroupTabs", "listTabs"}, fieldData \in RunTabs}

\* The conversion before its first tab.
RunStarted ==
    [op |-> "conversion", result |-> <<>>, before |-> ExistingFields,
     after |-> ExistingFields]

\* The conversion awaits translateField for its next tab; the registry is
\* read when the call is made.
RunTranslateField ==
    /\ call.op = "conversion"
    /\ Len(call.result) < MaxRunTabs
    /\ LET out == TranslateField(request.fieldType, request.fieldData, call.after,
                                 request.pageSize, request.options, FIELD_TRANSLATORS,
                                 request.env)
       IN  call' = [call EXCEPT !.result = Append(@, BoolV(out.result)),
                                !.after = out.fields]
    /\ UNCHANGED <<FIELD_TRANSLATORS, requested, request>>

\* Another task calls setFieldTypeEnabled while the conversion is suspended.
OtherTaskSetFieldTypeEnabled ==
    \E fieldType \in ToggleNames, enabled \in {BoolV(TRUE), BoolV(FALSE)} :
        /\ FIELD_TRANSLATORS' =
              SetFieldTypeEnabled(FIELD_TRANSLATORS, fieldType, enabled).registry
        /\ requested' = IF fieldType \in Kinds
                        THEN [requested EXCEPT ![fieldType] = enabled]
                        ELSE requested
        /\ UNCHANGED <<request, call>>

\* Another task calls resetAllFieldTypes while the conversion is suspended.
OtherTaskResetAllFieldTypes ==
    /\ FIELD_TRANSLATORS' = ResetAllFieldTypes(FIELD_TRANSLATORS).registry
    /\ requested' = [k \in Kinds |-> BoolV(TRUE)]
    /\ UNCHANGED <<request, call>>

\* C30: no shared mutable state but the output document crosses a suspension
\* point of a conversion: the decision of the registry about a kind is the
\* same for every tab of one run, also when another task calls
\* setFieldTypeEnabled or resetAllFieldTypes while the run is suspended.
C30_SameDecisionThroughoutRun ==
    call.op = "conversion" =>
        \A a \in 1..Len(call.result) : \A b \in 1..Len(call.result) :
            call.result[a] = call.result[b]

-----------------------------------------------------------------------------
(* Specifications *)


\* The coordinate conversions, each applied to one bounded input.
NextRect ==
    \/ CallGetTabRectangle /\ UNCHANGED <<conv, FIELD_TRANSLATORS, requested, request, call, nameIn, nameOut>>
    \/ CallTranslateFieldCoords /\ UNCHANGED <<conv, FIELD_TRANSLATORS, requested, request, call, nameIn, nameOut>>
    \/ CallConvertDocuSignCoordinates
          /\ UNCHANGED <<conv, FIELD_TRANSLATORS, requested, request, call, nameIn, nameOut>>
    \/ CallLegacyConvertDocuSignCoordinates
          /\ UNCHANGED <<conv, FIELD_TRANSLATORS, requested, request, call, nameIn, nameOut>>

InitSpecRect ==
    /\ rectIn \in RectInputs
    /\ rectOut = NoRectOut
    /\ conv = ConvIdle
    /\ FIELD_TRANSLATORS = InitialRegistry
    /\ requested = InitialRegistry.own
    /\ request = NoRequest
    /\ call = NoCall
    /\ nameIn = NoNameIn
    /\ nameOut = <<>>

SpecRect == InitSpecRect /\ [][NextRect]_vars

\* One call of convertDocuSignToPDF.
NextConvert ==
    \/ ConvertStart /\ UNCHANGED <<rectIn, rectOut, FIELD_TRANSLATORS, requested, request, call, nameIn, nameOut>>
    \/ LoadDocument /\ UNCHANGED <<rectIn, rectOut, FIELD_TRANSLATORS, requested, request, call, nameIn, nameOut>>
    \/ MergeDocument /\ UNCHANGED <<rectIn, rectOut, FIELD_TRANSLATORS, requested, request, call, nameIn, nameOut>>
    \/ ProcessTab /\ UNCHANGED <<rectIn, rectOut, FIELD_TRANSLATORS, requested, request, call, nameIn, nameOut>>
    \/ Finish /\ UNCHANGED <<rectIn, rectOut, FIELD_TRANSLATORS, requested, request, call, nameIn, nameOut>>

InitSpecConvert ==
    /\ rectIn = RectInputsIdle
    /\ rectOut = NoRectOut
    /\ conv = ConvIdle
    /\ FIELD_TRANSLATORS = InitialRegistry
    /\ requested = InitialRegistry.own
    /\ request = NoRequest
    /\ call = NoCall
    /\ nameIn = NoNameIn
    /\ nameOut = <<>>

SpecConvert == InitSpecConvert /\ [][NextConvert]_vars

\* generateFieldName, once for each of two tabs.
NextName ==
    \/ CallGenerateFieldName
          /\ UNCHANGED <<rectIn, rectOut, conv, FIELD_TRANSLATORS, requested, request, call>>

InitSpecName ==
    /\ rectIn = RectInputsIdle
    /\ rectOut = NoRectOut
    /\ conv = ConvIdle
    /\ FIELD_TRANSLATORS = InitialRegistry
    /\ requested = InitialRegistry.own
    /\ request = NoRequest
    /\ call = NoCall
    /\ nameIn \in NameInputs
    /\ nameOut = <<>>

SpecName == InitSpecName /\ [][NextName]_vars

\* The registry calls in any order, around translateField calls on one
\* bounded request.
NextRun ==
    \/ RunTranslateField /\ UNCHANGED <<rectIn, rectOut, conv, nameIn, nameOut>>
    \/ OtherTaskSetFieldTypeEnabled /\ UNCHANGED <<rectIn, rectOut, conv, nameIn, nameOut>>
    \/ OtherTaskResetAllFieldTypes /\ UNCHANGED <<rectIn, rectOut, conv, nameIn, nameOut>>

InitSpecRun ==
    /\ rectIn = RectInputsIdle
    /\ rectOut = NoRectOut
    /\ conv = ConvIdle
    /\ FIELD_TRANSLATORS = InitialRegistry
    /\ requested = InitialRegistry.own
    /\ request \in RunRequests
    /\ call = RunStarted
    /\ nameIn = NoNameIn
    /\ nameOut = <<>>

SpecRun == InitSpecRun /\ [][NextRun]_vars

Next ==
    \/ CallSetFieldTypeEnabled /\ UNCHANGED <<rectIn, rectOut, conv, nameIn, nameOut>>
    \/ CallResetAllFieldTypes /\ UNCHANGED <<rectIn, rectOut, conv, nameIn, nameOut>>
    \/ CallGetFieldTypeStates /\ UNCHANGED <<rectIn, rectOut, conv, nameIn, nameOut>>
    \/ CallTranslateField /\ UNCHANGED <<rectIn, rectOut, conv, nameIn, nameOut>>
    \/ CallLegacyTranslateField /\ UNCHANGED <<rectIn, rectOut, conv, nameIn, nameOut>>

Init ==
    /\ rectIn = RectInputsIdle
    /\ rectOut = NoRectOut
    /\ conv = ConvIdle
    /\ FIELD_TRANSLATORS = InitialRegistry
    /\ requested = InitialRegistry.own
    /\ request \in Requests
    /\ call = NoCall
    /\ nameIn = NoNameIn
    /\ nameOut = <<>>

Spec == Init /\ [][Next]_vars

====
